---- MODULE Spec2Model ----
(***************************************************************************)
(* arret: inventory of a workspace bucket, deletion plan, deletion.        *)
(*                                                                         *)
(* Two commands of the program are modelled as state machines:             *)
(*   SpecPlan   make_plan of plan.py (the plan engine, folder roll-up)     *)
(*   SpecClean  do_clean of clean.py (the deletion executor and its pool)  *)
(* Spec is the program started as either command.                          *)
(*                                                                         *)
(* Object names are sequences of path parts ("a/script" is                 *)
(* <<"a", "script">>), urls are pairs <<bucket, name>>, timestamps are      *)
(* clock ticks (TicksPerDay ticks make one calendar date) and sizes are    *)
(* small naturals.                                                         *)
(***************************************************************************)
EXTENDS Integers, Sequences, FiniteSets, TLC

\* ------------------------------------------------------------------ bounds
\* largest number of objects in an inventory
MaxBlobs == 3
\* clock ticks per calendar date
TicksPerDay == 2
\* ticks that may pass between two runs of the plan engine
MaxTicks == 2

\* the limit of one batch request; max_batch_size is 1000 in clean.py:77 and
\* is scaled down here to the size of the model's tables
max_batch_size == 2
\* the worker threads of the executor's pool
max_workers == 2
\* the capacity of the pool's work queue
queue_size == 2

\* ------------------------------------------------------------- vocabulary
\* The path parts used by the names of the model, in the order Python
\* compares strings (code points); pandas sorts group keys in that order.
PartOrder ==
  <<"a", "b", "data.bam", "pipelines-logs", "run.log", "script",
    "stdout.log", "task">>

Rank(p) == CHOOSE i \in 1..Len(PartOrder) : PartOrder[i] = p

\* the parts whose text ends with ".log"
DotLogParts == {"run.log", "stdout.log"}

DataBam == <<"a", "data.bam">>
AScript == <<"a", "script">>
StdoutLog == <<"a", "pipelines-logs", "task", "stdout.log">>
TaskObj == <<"a", "pipelines-logs", "task">>
RunLog == <<"b", "run.log">>

\* the object names an inventory is drawn from; TaskObj is an object whose
\* name is a path prefix of StdoutLog (object stores allow both to exist)
Names == {DataBam, AScript, StdoutLog, TaskObj, RunLog}

Bucket == "bkt"
OtherBucket == "other-bkt"

\* (size, updated) of an object; see SizeChoices and NowChoices below:
\* size 0 is empty, size 3 is above the threshold, an object updated at
\* tick 0 is old at every run, one updated at tick 4 is not old at the first
\* run and becomes old when the date changes
Profiles ==
  { [size |-> 0, updated |-> 4], [size |-> 1, updated |-> 4],
    [size |-> 1, updated |-> 0], [size |-> 3, updated |-> 4],
    [size |-> 3, updated |-> 0] }

\* the thresholds and the clock at the start, inputs of a run
DaysChoices == {1}
LargeChoices == {2}
NowChoices == {6}

VARIABLES
  cmd,                  \* the command the program was started as
  \* ---- plan engine
  inv,                  \* the inventory data frame: a set of rows
  gs_urls,              \* the reference set at plan time: a set of urls
  days_considered_old,
  size_considered_large,
  now,                  \* the wall clock, in ticks
  plans,                \* the plans returned by the runs so far
  run_at,               \* the clock at each run
  \* ---- deletion executor
  stored,               \* the blobs table as the plan engine wrote it
  blobs,                \* the blobs table of the plan store, by name
  to_delete_sql,        \* the SQL condition given to do_clean
  other_workspaces,     \* the sibling workspaces given to do_clean
  fresh_urls,           \* the gs_urls data frame built by this run
  fetch_errors,         \* the entity types whose fetch raised in this run
  pc,                   \* where do_clean is
  blobs_to_delete,      \* the selected names, in table order
  batch_i,              \* the index of the next batch to submit
  work_queue,           \* the bounded queue of the pool
  threads,              \* the worker threads of the pool
  idle_semaphore,       \* the pool's count of idle workers
  delete_calls,         \* the names passed to bucket.delete_blob
  deleted,              \* the objects the bucket has removed
  errors,               \* the names whose deletion failed
  \* ---- call_firecloud_api
  max_retries,          \* the argument of call_firecloud_api
  calls,                \* what each call of func did, in order
  n_retries,            \* maybe_retry's count of retries
  waits,                \* the tenths of a second maybe_retry slept, in order
  rpc,                  \* where call_firecloud_api is
  res,                  \* the response, then what the call returned or raised
  logged,               \* the error lines logged
  \* ---- collect_gs_urls
  df,                   \* the data frame: its columns, each with its cells
  col_i,                \* the column collect_gs_urls is at
  val_i,                \* the cell of that column it is at
  stack,                \* the values still to be looked at
  url_rows,             \* the rows collected
  cpc,                  \* where collect_gs_urls is
  \* ---- inventory and run_all
  old_file,             \* the lines of the file before the generator is made
  inventory_file,       \* the lines of the file at inventory_path
  n_pages,              \* the pages the listing of the bucket has
  page_i,               \* the pages listed and submitted by the current call
  ipc,                  \* where the generator and write_inventory are
  call,                 \* the calls of write_inventory on the generator
  inv_queue,            \* the work queue of the pool of write_inventory
  inv_threads,          \* the threads of that pool
  inv_idle,             \* the idle semaphore of that pool
  file_lock,            \* the thread holding file_lock, or 0
  n_blobs_written,      \* the counter of the generator
  task_errors,          \* the page tasks that raised, kept in their futures
  list_error,           \* the listing raised
  phases,               \* the phases of run_all started so far
  plan_read,            \* the lines of the inventory the plan phase read
  \* ---- the command line
  command,              \* the subcommand given
  from_config,          \* a config file is given: ctx.obj is not None
  given,                \* the options given, or the keys the config file has
  cli_pc,               \* the phase the command is at, or how it ended
  effects,              \* the remote calls and file writes made so far
  \* ---- a BoundedThreadPoolExecutor
  n_items,              \* the work items the submitter has for the pool
  submitted,            \* the work items whose submit has returned
  pool_queue,           \* _work_queue
  pool_threads,         \* the threads of the pool and the item each runs
  pool_idle,            \* _idle_semaphore
  finished,             \* the work items that were run
  ppc,                  \* where the submitter is
  \* ---- make_batch_job_id
  workspace_name,       \* the name of the workspace, its characters
  today,                \* datetime.datetime.now().strftime("%Y-%m-%d")
  uuid_part,            \* str(uuid4()).split("-")[0]
  job_id                \* the id returned, << >> before the call

planVars ==
  <<inv, gs_urls, days_considered_old, size_considered_large, now, plans,
    run_at>>

cleanVars ==
  <<stored, blobs, to_delete_sql, other_workspaces, fresh_urls, fetch_errors, pc,
    blobs_to_delete,
    batch_i, work_queue, threads, idle_semaphore, delete_calls, deleted,
    errors>>

retryVars == <<max_retries, calls, n_retries, waits, rpc, res, logged>>

\* the variables of the other commands and functions
collectVars == <<df, col_i, val_i, stack, url_rows, cpc>>

inventoryVars ==
  <<old_file, inventory_file, n_pages, page_i, ipc, call, inv_queue,
    inv_threads, inv_idle, file_lock, n_blobs_written, task_errors,
    list_error, phases, plan_read>>

cliVars == <<command, from_config, given, cli_pc, effects>>

poolVars ==
  <<n_items, submitted, pool_queue, pool_threads, pool_idle, finished, ppc>>

jobVars == <<workspace_name, today, uuid_part, job_id>>

otherVars ==
  <<retryVars, collectVars, inventoryVars, cliVars, poolVars, jobVars>>

vars == <<cmd, planVars, cleanVars, otherVars>>

\* ------------------------------------------------------------ plan engine
\* read_inventory: the url of a blob name
GsUrl(bucket_name, name) == <<bucket_name, name>>

InvRow(name, prof) ==
  [name |-> name, updated |-> prof.updated, size |-> prof.size,
   gs_url |-> GsUrl(Bucket, name)]

\* name.endswith(".log") | name.endswith("/script")
ForceKeep(name) ==
  \/ name[Len(name)] \in DotLogParts
  \/ Len(name) >= 2 /\ name[Len(name)] = "script"

\* name contains the regex /pipelines-logs/[^/]: a part that is not the
\* first one is "pipelines-logs" and a non-empty part follows it
IsPipelineLogs(name) ==
  \E i \in 2..(Len(name) - 1) : name[i] = "pipelines-logs" /\ name[i + 1] # ""

\* updated.dt.date
DateOf(t) == t \div TicksPerDay

\* CutoffDate without the days subtracted
CutoffDateToday(nowt, days) == DateOf(nowt)

\* (pd.Timestamp.now() - pd.Timedelta(days=days_considered_old)).date()
CutoffDate(nowt, days) == DateOf(nowt - days * TicksPerDay)

\* IsOld with the timestamps compared, not their dates
IsOldTimestamp(updated, nowt, days) == updated < nowt - days * TicksPerDay

\* the comparison of plan.py:100-102
IsOld(updated, nowt, days) == DateOf(updated) < CutoffDate(nowt, days)

IsLarge(size, large) == size > large

\* Deletable without the reference set
DeletableUnchecked(r, urls) == TRUE

\* plan.py:97
Deletable(r, urls) == r.gs_url \notin urls

\* the deletable_* columns of a row; p holds the inputs of the run
RowFlags(r, p) ==
  LET d == Deletable(r, p.urls)
  IN [deletable |-> d,
      deletable_age |-> d /\ IsOld(r.updated, p.now, p.days),
      deletable_empty |-> d /\ r.size = 0,
      deletable_large |-> d /\ IsLarge(r.size, p.large),
      deletable_not_kept |-> d /\ ~ForceKeep(r.name),
      deletable_pipeline_logs |-> d /\ IsPipelineLogs(r.name)]

RECURSIVE SumSize(_)
SumSize(rows) ==
  IF rows = {} THEN 0
  ELSE LET r == CHOOSE x \in rows : TRUE IN r.size + SumSize(rows \ {r})

MaxUpdated(rows) ==
  CHOOSE t \in {r.updated : r \in rows} : \A r \in rows : r.updated <= t

\* the rows of the group of a path: groupby drops the rows whose key holds a
\* missing part (a name shorter than the path)
GroupRows(rows, key) ==
  {r \in rows : Len(r.name) >= Len(key) /\ SubSeq(r.name, 1, Len(key)) = key}

GroupKeys(rows, k) ==
  {SubSeq(r.name, 1, k) : r \in {x \in rows : Len(x.name) >= k}}

\* the order of two group keys of the same length
KeyLess(a, b) ==
  \E i \in 1..Len(a) :
    /\ \A j \in 1..(i - 1) : a[j] = b[j]
    /\ Rank(a[i]) < Rank(b[i])

RECURSIVE SortKeys(_)
SortKeys(keys) ==
  IF keys = {} THEN << >>
  ELSE LET m == CHOOSE k \in keys : \A o \in keys \ {k} : KeyLess(k, o)
       IN <<m>> \o SortKeys(keys \ {m})

\* ToDelete with the age rule not restricted to the files not kept
ToDeleteNoKeep(st) ==
  \/ st.deletable_empty
  \/ st.deletable_large
  \/ st.deletable_pipeline_logs
  \/ st.deletable_age

\* ToDelete with | for the & of its last line
ToDeleteOrKept(st) ==
  \/ st.deletable_empty
  \/ st.deletable_large
  \/ st.deletable_pipeline_logs
  \/ (st.deletable_age \/ st.deletable_not_kept)

\* stats["to_delete"], plan.py:174-179
ToDelete(st) ==
  \/ st.deletable_empty
  \/ st.deletable_large
  \/ st.deletable_pipeline_logs
  \/ (st.deletable_age /\ st.deletable_not_kept)

\* the row of stats of one group, plan.py:143-182 and 186-196
GroupStats(rows, key, cix, p) ==
  LET g == GroupRows(rows, key)
      all_deletable == \A r \in g : RowFlags(r, p).deletable
      all_age == \A r \in g : RowFlags(r, p).deletable_age
      all_empty == \A r \in g : RowFlags(r, p).deletable_empty
      all_large == \A r \in g : RowFlags(r, p).deletable_large
      all_not_kept == \A r \in g : RowFlags(r, p).deletable_not_kept
      all_pipeline_logs == \A r \in g : RowFlags(r, p).deletable_pipeline_logs
      n == Cardinality(g)
      del == ToDelete([deletable_empty |-> all_empty,
                       deletable_large |-> all_large,
                       deletable_pipeline_logs |-> all_pipeline_logs,
                       deletable_age |-> all_age,
                       deletable_not_kept |-> all_not_kept])
  IN [deletable |-> all_deletable,
      deletable_age |-> all_age,
      deletable_empty |-> all_empty,
      deletable_large |-> all_large,
      deletable_not_kept |-> all_not_kept,
      deletable_pipeline_logs |-> all_pipeline_logs,
      size |-> SumSize(g),
      updated |-> MaxUpdated(g),
      n_objs |-> n,
      depth |-> cix,
      to_delete |-> del,
      to_keep |-> n = 1 /\ ~del,
      blobs |-> IF del THEN {r.name : r \in g} ELSE {}]

\* the loop of plan.py:129-201 from column cix on: the stats of every
\* level, and the rows left for the next level
RECURSIVE RollUp(_, _, _, _)
RollUp(rows, cix, max_name_depth, p) ==
  IF cix > max_name_depth THEN << >>
  ELSE LET keys == SortKeys(GroupKeys(rows, cix + 1))
           stats == [i \in 1..Len(keys) |-> GroupStats(rows, keys[i], cix, p)]
           left == {r \in rows : \E i \in 1..Len(keys) :
                      /\ r \in GroupRows(rows, keys[i])
                      /\ ~(stats[i].to_delete \/ stats[i].to_keep)}
       IN stats \o RollUp(left, cix + 1, max_name_depth, p)

\* sort_values("size", ascending=False); rows of equal size keep their order
RECURSIVE SortBySizeDesc(_)
SortBySizeDesc(s) ==
  IF s = << >> THEN << >>
  ELSE LET i == CHOOSE k \in 1..Len(s) :
                  /\ \A j \in 1..Len(s) : s[j].size <= s[k].size
                  /\ \A j \in 1..(k - 1) : s[j].size < s[k].size
       IN <<s[i]>> \o SortBySizeDesc(SubSeq(s, 1, i - 1) \o SubSeq(s, i + 1, Len(s)))

DropCols(op) ==
  [f \in DOMAIN op \ {"to_delete", "to_keep"} |-> op[f]]

\* make_plan: the delete operations, largest first
make_plan(rows, urls, nowt, days, large) ==
  LET p == [urls |-> urls, now |-> nowt, days |-> days, large |-> large]
      max_name_depth ==
        CHOOSE d \in {Len(r.name) - 1 : r \in rows} :
          \A r \in rows : Len(r.name) - 1 <= d
      ops == RollUp(rows, 0, max_name_depth, p)
      IsDel(op) == op.to_delete
      delete_ops == SortBySizeDesc(SelectSeq(ops, IsDel))
  IN [i \in 1..Len(delete_ops) |-> DropCols(delete_ops[i])]

\* the names a plan deletes
PlanBlobs(plan) == UNION {plan[i].blobs : i \in 1..Len(plan)}

PlanInit ==
  /\ cmd = "plan"
  /\ \E ns \in SUBSET Names :
       /\ Cardinality(ns) \in 1..MaxBlobs
       /\ \E f \in [ns -> Profiles] : inv = {InvRow(n, f[n]) : n \in ns}
       /\ \E refd \in SUBSET ns : gs_urls = {GsUrl(Bucket, n) : n \in refd}
  /\ days_considered_old \in DaysChoices
  /\ size_considered_large \in LargeChoices
  /\ now \in NowChoices
  /\ plans = << >>
  /\ run_at = << >>

\* one run of the plan engine
MakePlan ==
  /\ cmd = "plan"
  /\ Len(plans) < 2
  /\ plans' = Append(plans, make_plan(inv, gs_urls, now, days_considered_old,
                                      size_considered_large))
  /\ run_at' = Append(run_at, now)
  /\ UNCHANGED <<cmd, otherVars, inv, gs_urls, days_considered_old, size_considered_large,
                 now, cleanVars>>

\* time passes between the first run and the second
Tick ==
  /\ cmd = "plan"
  /\ Len(plans) = 1
  /\ now < run_at[1] + MaxTicks
  /\ now' = now + 1
  /\ UNCHANGED <<cmd, otherVars, inv, gs_urls, days_considered_old, size_considered_large,
                 plans, run_at, cleanVars>>

PlanNext == MakePlan \/ Tick

\* ------------------------------------------------------ deletion executor
Primary == "ns/ws"
Sibling == "ns/sibling"

\* the largest selection the batch sizes are computed of
MaxSelection == 9

\* the rows of the blobs table, in table order
RowOrder == <<DataBam, StdoutLog, AScript>>
RowNames == {RowOrder[i] : i \in 1..Len(RowOrder)}

\* size and age of the objects of the table when the plan was written:
\* a/data.bam is old and large, a/script is old, the pipeline log is recent
RowSize(name) == IF name = DataBam THEN 3 ELSE 1
RowIsOld(name) == name \in {DataBam, AScript}

\* a row of the blobs table do_clean opens
PlanRow(name, idt, td) ==
  [url |-> GsUrl(Bucket, name), name |-> name, size |-> RowSize(name),
   is_large |-> \E l \in LargeChoices : IsLarge(RowSize(name), l),
   is_old |-> RowIsOld(name),
   is_pipeline_logs |-> IsPipelineLogs(name),
   force_keep |-> ForceKeep(name),
   in_data_table |-> idt, to_delete |-> td]

\* the tables the plan file may hold: every object with any stored values of
\* the flags in_data_table and to_delete
PlanStores ==
  {[n \in RowNames |-> PlanRow(n, f[n][1], f[n][2])] :
     f \in [RowNames -> BOOLEAN \X BOOLEAN]}

\* the conditions given as to_delete_sql: the stored flag, the default logic
\* of apply_delete_logic's documentation, and that logic with the exception
SqlStored == "to_delete"
SqlDefault == "is_old OR is_large OR is_pipeline_logs"
SqlKeep == "(is_old OR is_large OR is_pipeline_logs) AND NOT force_keep"
SqlChoices == {SqlStored, SqlDefault, SqlKeep}

EvalSql(sql, row) ==
  CASE sql = SqlStored -> row.to_delete
    [] sql = SqlDefault -> row.is_old \/ row.is_large \/ row.is_pipeline_logs
    [] sql = SqlKeep ->
         (row.is_old \/ row.is_large \/ row.is_pipeline_logs) /\ ~row.force_keep

\* what the data tables of a workspace may reference: the primary workspace
\* any object of the bucket, the sibling a/data.bam of the shared bucket or
\* the object of that name in its own bucket
TableUrls(ws) ==
  IF ws = Primary THEN {GsUrl(Bucket, n) : n \in RowNames}
  ELSE {GsUrl(Bucket, DataBam), GsUrl(OtherBucket, DataBam)}

workspaces_to_check == <<Primary>> \o other_workspaces

\* FreshUrls of the primary workspace alone
FreshUrlsPrimary ==
  IF fresh_urls = << >> THEN {} ELSE fresh_urls[1].urls

\* the urls of the gs_urls data frame
FreshUrls == UNION {fresh_urls[i].urls : i \in 1..Len(fresh_urls)}

\* apply_delete_logic without its first UPDATE: the stored in_data_table
apply_delete_logic_stale(table, urls, sql) ==
  [n \in DOMAIN table |->
     [table[n] EXCEPT !.to_delete = EvalSql(sql, table[n])
                                      /\ ~table[n].in_data_table]]

\* apply_delete_logic without AND NOT in_data_table in its second UPDATE
apply_delete_logic_nofilter(table, urls, sql) ==
  LET t1 == [n \in DOMAIN table |->
               [table[n] EXCEPT !.in_data_table = table[n].url \in urls]]
  IN [n \in DOMAIN table |-> [t1[n] EXCEPT !.to_delete = EvalSql(sql, t1[n])]]

\* apply_delete_logic with a first UPDATE that also clears is_large of the
\* referenced rows
apply_delete_logic_rewrite(table, urls, sql) ==
  LET t1 == [n \in DOMAIN table |->
               [table[n] EXCEPT !.in_data_table = table[n].url \in urls,
                                !.is_large = @ /\ ~(table[n].url \in urls)]]
  IN [n \in DOMAIN table |->
        [t1[n] EXCEPT !.to_delete = EvalSql(sql, t1[n]) /\ ~t1[n].in_data_table]]

\* the two UPDATE statements of apply_delete_logic
apply_delete_logic(table, urls, sql) ==
  LET t1 == [n \in DOMAIN table |->
               [table[n] EXCEPT !.in_data_table = table[n].url \in urls]]
  IN [n \in DOMAIN table |->
        [t1[n] EXCEPT !.to_delete = EvalSql(sql, t1[n]) /\ ~t1[n].in_data_table]]

\* the assertion that ends apply_delete_logic
AssertNoActive(table) ==
  ~\E n \in DOMAIN table : table[n].in_data_table /\ table[n].to_delete

\* ToDeleteRows filtered on in_data_table alone
ToDeleteRowsUnreferenced(table) ==
  LET Sel(n) == ~table[n].in_data_table IN SelectSeq(RowOrder, Sel)

\* db.table("blobs").filter("to_delete"), the names
ToDeleteRows(table) ==
  LET Sel(n) == table[n].to_delete IN SelectSeq(RowOrder, Sel)

n_batches(n_blobs) == 1 + n_blobs \div max_batch_size

\* batch_size of a selection that is not split
batch_size_nosplit(n_blobs) == n_blobs

\* ceil(n_blobs / n_batches)
batch_size(n_blobs) ==
  (n_blobs + n_batches(n_blobs) - 1) \div n_batches(n_blobs)

Min(a, b) == IF a <= b THEN a ELSE b

\* blobs_to_delete[(i * batch_size) : (i * batch_size + batch_size)]
BatchOf(sel, i) ==
  LET bs == batch_size(Len(sel))
  IN SubSeq(sel, i * bs + 1, Min(i * bs + bs, Len(sel)))

NoThread == [st |-> "none", batch |-> << >>, pending |-> {}]
NoneItem == [fn |-> "None", batch |-> << >>, i |-> 0]

NumThreads == Cardinality({w \in 1..max_workers : threads[w].st # "none"})

CleanInit ==
  /\ cmd = "clean"
  /\ stored \in PlanStores
  /\ blobs = stored
  /\ to_delete_sql \in SqlChoices
  /\ other_workspaces \in {<< >>, <<Sibling>>}
  /\ fresh_urls = << >>
  /\ fetch_errors = {}
  /\ pc = "resolve"
  /\ blobs_to_delete = << >>
  /\ batch_i = 0
  /\ work_queue = << >>
  /\ threads = [w \in 1..max_workers |-> NoThread]
  /\ idle_semaphore = 0
  /\ delete_calls = [n \in RowNames |-> 0]
  /\ deleted = {}
  /\ errors = {}

\* do_clean, clean.py:46-55: the references of the next workspace to check
GetGsUrls ==
  /\ cmd = "clean" /\ pc = "resolve"
  /\ Len(fresh_urls) < Len(workspaces_to_check)
  /\ LET ws == workspaces_to_check[Len(fresh_urls) + 1]
     IN \E urls \in SUBSET TableUrls(ws) :
          fresh_urls' = Append(fresh_urls, [workspace |-> ws, urls |-> urls])
  /\ UNCHANGED <<cmd, planVars, otherVars, fetch_errors, stored, blobs, to_delete_sql, other_workspaces, pc,
                 blobs_to_delete, batch_i, work_queue, threads, idle_semaphore,
                 delete_calls, deleted, errors>>

\* the entity types get_entity_types returns of a workspace
EntityTypes == {"pair", "sample"}

\* GetGsUrlsRaises with the failed fetches logged and left out
GetGsUrlsSkips ==
  /\ cmd = "clean" /\ pc = "resolve"
  /\ Len(fresh_urls) < Len(workspaces_to_check)
  /\ LET ws == workspaces_to_check[Len(fresh_urls) + 1]
     IN /\ \E failed \in SUBSET EntityTypes \ {{}} :
             fetch_errors' = fetch_errors \cup {<<ws, k>> : k \in failed}
        /\ \E urls \in SUBSET TableUrls(ws) :
             fresh_urls' = Append(fresh_urls, [workspace |-> ws, urls |-> urls])
  /\ UNCHANGED <<cmd, planVars, otherVars, stored, blobs, to_delete_sql,
                 other_workspaces, pc, blobs_to_delete, batch_i, work_queue,
                 threads, idle_semaphore, delete_calls, deleted, errors>>

\* get_gs_urls, clean.py:120-134: the fetch of some entity type of the next
\* workspace raises after its retries; f.result() raises it again and do_clean
\* ends with it
GetGsUrlsRaises ==
  /\ cmd = "clean" /\ pc = "resolve"
  /\ Len(fresh_urls) < Len(workspaces_to_check)
  /\ LET ws == workspaces_to_check[Len(fresh_urls) + 1]
     IN \E failed \in SUBSET EntityTypes \ {{}} :
          fetch_errors' = fetch_errors \cup {<<ws, k>> : k \in failed}
  /\ pc' = "RequestException"
  /\ UNCHANGED <<cmd, planVars, otherVars, stored, blobs, to_delete_sql,
                 other_workspaces, fresh_urls, blobs_to_delete, batch_i,
                 work_queue, threads, idle_semaphore, delete_calls, deleted,
                 errors>>

\* ApplyDeleteLogic without the return on an empty selection
ApplyDeleteLogicNoReturn ==
  /\ cmd = "clean" /\ pc = "resolve"
  /\ Len(fresh_urls) = Len(workspaces_to_check)
  /\ LET t == apply_delete_logic(blobs, FreshUrls, to_delete_sql)
     IN /\ blobs' = t
        /\ IF ~AssertNoActive(t)
           THEN pc' = "AssertionError" /\ blobs_to_delete' = << >>
           ELSE /\ blobs_to_delete' = ToDeleteRows(t)
                /\ pc' = "client"
  /\ UNCHANGED <<cmd, planVars, otherVars, fetch_errors, stored, to_delete_sql, other_workspaces, fresh_urls,
                 batch_i, work_queue, threads, idle_semaphore, delete_calls,
                 deleted, errors>>

\* do_clean, clean.py:57-66: the plan is updated and the rows are selected
ApplyDeleteLogic ==
  /\ cmd = "clean" /\ pc = "resolve"
  /\ Len(fresh_urls) = Len(workspaces_to_check)
  /\ LET t == apply_delete_logic(blobs, FreshUrls, to_delete_sql)
     IN /\ blobs' = t
        /\ IF ~AssertNoActive(t)
           THEN pc' = "AssertionError" /\ blobs_to_delete' = << >>
           ELSE /\ blobs_to_delete' = ToDeleteRows(t)
                /\ pc' = IF ToDeleteRows(t) = << >> THEN "done" ELSE "client"
  /\ UNCHANGED <<cmd, planVars, otherVars, fetch_errors, stored, to_delete_sql, other_workspaces, fresh_urls,
                 batch_i, work_queue, threads, idle_semaphore, delete_calls,
                 deleted, errors>>

\* do_clean, clean.py:68-86: the client, the bucket and the pool are made
MakeClient ==
  /\ cmd = "clean" /\ pc = "client"
  /\ pc' = "submit"
  /\ batch_i' = 0
  /\ UNCHANGED <<cmd, planVars, otherVars, fetch_errors, stored, blobs, to_delete_sql, other_workspaces,
                 fresh_urls, blobs_to_delete, work_queue, threads,
                 idle_semaphore, delete_calls, deleted, errors>>

\* ThreadPoolExecutor._adjust_thread_count: the threads after a submit
AdjustThreads ==
  IF idle_semaphore > 0 \/ NumThreads = max_workers THEN threads
  ELSE LET w == CHOOSE x \in 1..max_workers :
                  /\ threads[x].st = "none"
                  /\ \A y \in 1..(x - 1) : threads[y].st # "none"
       IN [threads EXCEPT ![w].st = "waiting"]

\* do_clean, clean.py:87-101: one batch is put on the queue; the put blocks
\* while the queue is full
Submit ==
  /\ cmd = "clean" /\ pc = "submit"
  /\ batch_i < n_batches(Len(blobs_to_delete))
  /\ Len(work_queue) < queue_size
  /\ work_queue' = Append(work_queue,
       [fn |-> "delete_batch", batch |-> BatchOf(blobs_to_delete, batch_i),
        i |-> batch_i])
  /\ threads' = AdjustThreads
  /\ idle_semaphore' = IF idle_semaphore > 0 THEN idle_semaphore - 1
                       ELSE idle_semaphore
  /\ batch_i' = batch_i + 1
  /\ UNCHANGED <<cmd, planVars, otherVars, fetch_errors, stored, blobs, to_delete_sql, other_workspaces,
                 fresh_urls, pc, blobs_to_delete, delete_calls, deleted, errors>>

\* the exit of the with block: shutdown puts the sentinel on the queue
Shutdown ==
  /\ cmd = "clean" /\ pc = "submit"
  /\ batch_i = n_batches(Len(blobs_to_delete))
  /\ Len(work_queue) < queue_size
  /\ work_queue' = Append(work_queue, NoneItem)
  /\ pc' = "join"
  /\ UNCHANGED <<cmd, planVars, otherVars, fetch_errors, stored, blobs, to_delete_sql, other_workspaces,
                 fresh_urls, blobs_to_delete, batch_i, threads, idle_semaphore,
                 delete_calls, deleted, errors>>

\* shutdown(wait=True) has joined every thread and do_clean returns
Join ==
  /\ cmd = "clean" /\ pc = "join"
  /\ \A w \in 1..max_workers : threads[w].st \in {"none", "exited"}
  /\ pc' = "done"
  /\ UNCHANGED <<cmd, planVars, otherVars, fetch_errors, stored, blobs, to_delete_sql, other_workspaces,
                 fresh_urls, blobs_to_delete, batch_i, work_queue, threads,
                 idle_semaphore, delete_calls, deleted, errors>>

\* _worker: a thread takes the next item; on the sentinel it puts it back
\* for the other threads and ends
WorkerGet(w) ==
  /\ cmd = "clean"
  /\ threads[w].st = "waiting"
  /\ work_queue # << >>
  /\ LET item == Head(work_queue)
     IN IF item.fn = "None"
        THEN /\ work_queue' = Append(Tail(work_queue), NoneItem)
             /\ threads' = [threads EXCEPT ![w].st = "exited"]
        ELSE /\ work_queue' = Tail(work_queue)
             /\ threads' = [threads EXCEPT ![w] =
                  [st |-> "running", batch |-> item.batch, pending |-> {}]]
  /\ UNCHANGED <<cmd, planVars, otherVars, fetch_errors, stored, blobs, to_delete_sql, other_workspaces,
                 fresh_urls, pc, blobs_to_delete, batch_i, idle_semaphore,
                 delete_calls, deleted, errors>>

\* DeleteBlob with the try around the loop: an error ends the batch
DeleteBlobAbort(w) ==
  /\ cmd = "clean"
  /\ threads[w].st = "running"
  /\ threads[w].batch # << >>
  /\ LET blob == Head(threads[w].batch)
     IN /\ delete_calls' = [delete_calls EXCEPT ![blob] = @ + 1]
        /\ \/ /\ threads' = [threads EXCEPT ![w].batch = Tail(@),
                                            ![w].pending = @ \cup {blob}]
              /\ errors' = errors
           \/ /\ threads' = [threads EXCEPT ![w].batch = << >>]
              /\ errors' = errors \cup {blob}
  /\ UNCHANGED <<cmd, planVars, otherVars, fetch_errors, stored, blobs, to_delete_sql, other_workspaces,
                 fresh_urls, pc, blobs_to_delete, batch_i, work_queue,
                 idle_semaphore, deleted>>

\* delete_batch, clean.py:238-242: the next name is passed to delete_blob,
\* which defers the request to the batch or raises; the error is logged
DeleteBlob(w) ==
  /\ cmd = "clean"
  /\ threads[w].st = "running"
  /\ threads[w].batch # << >>
  /\ LET blob == Head(threads[w].batch)
     IN /\ delete_calls' = [delete_calls EXCEPT ![blob] = @ + 1]
        /\ \/ /\ threads' = [threads EXCEPT ![w].batch = Tail(@),
                                            ![w].pending = @ \cup {blob}]
              /\ errors' = errors
           \/ /\ threads' = [threads EXCEPT ![w].batch = Tail(@)]
              /\ errors' = errors \cup {blob}
  /\ UNCHANGED <<cmd, planVars, otherVars, fetch_errors, stored, blobs, to_delete_sql, other_workspaces,
                 fresh_urls, pc, blobs_to_delete, batch_i, work_queue,
                 idle_semaphore, deleted>>

\* delete_batch, clean.py:237: the exit of the batch context sends the
\* deferred requests; the store removes the objects it finds, and with
\* raise_exception=False the failed ones raise nothing; the worker is idle
FinishBatch(w) ==
  /\ cmd = "clean"
  /\ threads[w].st = "running"
  /\ threads[w].batch = << >>
  /\ \E done \in SUBSET threads[w].pending :
       /\ deleted' = deleted \cup done
       /\ errors' = errors \cup (threads[w].pending \ done)
  /\ threads' = [threads EXCEPT ![w] =
                   [st |-> "waiting", batch |-> << >>, pending |-> {}]]
  /\ idle_semaphore' = idle_semaphore + 1
  /\ UNCHANGED <<cmd, planVars, otherVars, fetch_errors, stored, blobs, to_delete_sql, other_workspaces,
                 fresh_urls, pc, blobs_to_delete, batch_i, work_queue,
                 delete_calls>>

CleanNext ==
  \/ GetGsUrls
  \/ GetGsUrlsRaises
  \/ ApplyDeleteLogic
  \/ MakeClient
  \/ Submit
  \/ Shutdown
  \/ Join
  \/ \E w \in 1..max_workers : WorkerGet(w)
  \/ \E w \in 1..max_workers : DeleteBlob(w)
  \/ \E w \in 1..max_workers : FinishBatch(w)

\* the variables of the command that is not running
PlanIdle ==
  /\ inv = {}
  /\ gs_urls = {}
  /\ days_considered_old = 0
  /\ size_considered_large = 0
  /\ now = 0
  /\ plans = << >>
  /\ run_at = << >>

CleanIdle ==
  /\ stored = << >>
  /\ blobs = << >>
  /\ to_delete_sql = ""
  /\ other_workspaces = << >>
  /\ fresh_urls = << >>
  /\ fetch_errors = {}
  /\ pc = "off"
  /\ blobs_to_delete = << >>
  /\ batch_i = 0
  /\ work_queue = << >>
  /\ threads = << >>
  /\ idle_semaphore = 0
  /\ delete_calls = << >>
  /\ deleted = {}
  /\ errors = {}

\* ------------------------------------------------------ call_firecloud_api
\* max_retries of call_firecloud_api when the caller gives none
DefaultMaxRetries == 3

MaxRetriesChoices == {0, 1, DefaultMaxRetries}

\* requests.ConnectTimeout is a requests.ConnectionError; ValueError is what
\* get_gcp_oidc_token raises
ExceptionTypes == {"ConnectionError", "ConnectTimeout", "ValueError"}

\* retryable_exceptions of maybe_retry when the caller gives none: Exception
retryable_exceptions_default == ExceptionTypes

\* retryable_exceptions of call_firecloud_api
retryable_exceptions == {"ConnectionError", "ConnectTimeout"}

StatusCodes == {199, 200, 299, 300, 404}

\* the bodies of a response: one res.json() parses and one it does not
Bodies == {"{json}", "<html>"}

\* what the attempt-th call of func may do: raise or return a response
Outcomes(attempt) ==
  [kind : {"exc"}, type : ExceptionTypes, attempt : {attempt}]
    \cup [kind : {"res"}, status : StatusCodes, body : Bodies, attempt : {attempt}]

\* the longest wait round1 can give, in tenths of a second
MaxWaitTenths == 200

Abs(i) == IF i < 0 THEN 0 - i ELSE i

RECURSIVE Gcd(_, _)
Gcd(i, j) == IF j = 0 THEN i ELSE Gcd(j, i % j)

\* the real number (x + y * sqrt(5)) / d, in lowest terms: the numbers the
\* closed form computes with are of this shape
Q5(x, y, d) ==
  LET g == Gcd(Gcd(Abs(x), Abs(y)), d)
  IN [x |-> x \div g, y |-> y \div g, d |-> d \div g]

Q5Add(p, q) == Q5(p.x * q.d + q.x * p.d, p.y * q.d + q.y * p.d, p.d * q.d)

Q5Sub(p, q) == Q5(p.x * q.d - q.x * p.d, p.y * q.d - q.y * p.d, p.d * q.d)

Q5Mul(p, q) ==
  Q5(p.x * q.x + 5 * p.y * q.y, p.x * q.y + p.y * q.x, p.d * q.d)

\* p / q for q # 0: p times the conjugate of q over its norm
Q5Div(p, q) ==
  LET norm == q.x * q.x - 5 * q.y * q.y
      c == Q5Mul(p, [x |-> q.d * q.x, y |-> 0 - q.d * q.y, d |-> 1])
  IN IF norm > 0 THEN Q5(c.x, c.y, c.d * norm)
     ELSE Q5(0 - c.x, 0 - c.y, c.d * (0 - norm))

RECURSIVE Q5Pow(_, _)
Q5Pow(p, n) == IF n = 0 THEN Q5(1, 0, 1) ELSE Q5Mul(p, Q5Pow(p, n - 1))

\* q >= 0
Q5NonNeg(q) ==
  IF q.x >= 0 /\ q.y >= 0 THEN TRUE
  ELSE IF q.x < 0 /\ q.y < 0 THEN FALSE
  ELSE IF q.y < 0 THEN q.x * q.x >= 5 * q.y * q.y
  ELSE 5 * q.y * q.y >= q.x * q.x

Q5Le(p, q) == Q5NonNeg(Q5Sub(q, p))

\* utils.py:18-41: the n-th number of the sequence that starts with f0, f1,
\* by the closed form; the arithmetic is that of the reals, of which the
\* floats of the code are within 1e-9 for the n and the starts of the model
generalized_fibonacci(n, f0, f1) ==
  LET sqrt5 == Q5(0, 1, 1)
      phi == Q5Div(Q5Add(Q5(1, 0, 1), sqrt5), Q5(2, 0, 1))
      psi == Q5Sub(Q5(1, 0, 1), phi)
      a == Q5Div(Q5Sub(f1, Q5Mul(f0, psi)), sqrt5)
      b == Q5Div(Q5Sub(Q5Mul(f0, phi), f1), sqrt5)
      v == Q5Add(Q5Mul(a, Q5Pow(phi, n)), Q5Mul(b, Q5Pow(psi, n)))
  IN IF Q5NonNeg(v) THEN v ELSE Q5(0, 0, 1)

\* waiter that starts the sequence at n - 1
waiter_from_zero(n) == generalized_fibonacci(n - 1, Q5(1, 0, 1), Q5(1, 0, 1))

\* the default waiter of maybe_retry: partial(generalized_fibonacci, f0=1.0,
\* f1=1.0)
waiter(n) == generalized_fibonacci(n, Q5(1, 0, 1), Q5(1, 0, 1))

\* round(q, 1) in tenths: the nearest tenth, the even one of two
round1(q) ==
  LET v == Q5Mul(Q5(10, 0, 1), q)
      near == {t \in 0..MaxWaitTenths :
                 Q5Le(Q5(2 * t - 1, 0, 2), v) /\ Q5Le(v, Q5(2 * t + 1, 0, 2))}
  IN CHOOSE t \in near : Cardinality(near) = 1 \/ t % 2 = 0

\* the test of maybe_retry with one more try
RetriesExhaustedLate(n, max) == n > max

\* utils.py:75
RetriesExhausted(n, max) == n = max

NoResult == [kind |-> "none"]

RetryInit ==
  /\ cmd = "call_firecloud_api"
  /\ max_retries \in MaxRetriesChoices
  /\ calls = << >>
  /\ n_retries = 0
  /\ waits = << >>
  /\ rpc = "maybe_retry"
  /\ res = NoResult
  /\ logged = << >>

\* maybe_retry, utils.py:65-81: func is called; its response is returned, its
\* exception is raised, or is waited after and func called again
CallFunc ==
  /\ cmd = "call_firecloud_api" /\ rpc = "maybe_retry"
  /\ \E o \in Outcomes(Len(calls) + 1) :
       /\ calls' = Append(calls, o)
       /\ IF o.kind = "res"
          THEN /\ rpc' = "status" /\ res' = o
               /\ UNCHANGED <<n_retries, waits>>
          ELSE IF \/ max_retries = 0
                  \/ o.type \notin retryable_exceptions
                  \/ RetriesExhausted(n_retries, max_retries)
          THEN /\ rpc' = "raised" /\ res' = o
               /\ UNCHANGED <<n_retries, waits>>
          ELSE /\ waits' = Append(waits, round1(waiter(n_retries + 1)))
               /\ n_retries' = n_retries + 1
               /\ UNCHANGED <<rpc, res>>
  /\ UNCHANGED <<cmd, jobVars, planVars, cleanVars, collectVars, inventoryVars, cliVars, poolVars,
                 max_retries, logged>>

\* call_firecloud_api, terra.py:134-146: a 2xx response is returned as JSON
\* or as text; for another one the error raised with the body is caught by
\* the except clause around it, which logs and raises one without the body
CheckStatus ==
  /\ cmd = "call_firecloud_api" /\ rpc = "status"
  /\ IF 200 <= res.status /\ res.status <= 299
     THEN /\ rpc' = "returned"
          /\ res' = [kind |-> IF res.body = "{json}" THEN "json" ELSE "text",
                     body |-> res.body, attempt |-> res.attempt]
          /\ logged' = logged
     ELSE /\ rpc' = "raised"
          /\ res' = [kind |-> "exc", type |-> "RequestException",
                     status |-> res.status, body |-> "", attempt |-> res.attempt]
          /\ logged' = logged \o
               <<"Error getting response as JSON: "
                   \o (IF res.body = "{json}" THEN "HTTP error: " \o res.body
                       ELSE "JSONDecodeError"),
                 "Response text: " \o res.body>>
  /\ UNCHANGED <<cmd, jobVars, planVars, cleanVars, collectVars, inventoryVars, cliVars, poolVars,
                 max_retries, calls, n_retries, waits>>

RetryNext == CallFunc \/ CheckStatus

RetryIdle ==
  /\ max_retries = 0
  /\ calls = << >>
  /\ n_retries = 0
  /\ waits = << >>
  /\ rpc = "off"
  /\ res = NoResult
  /\ logged = << >>

\* --------------------------------------------------------- collect_gs_urls
\* the longest list and the largest map of a cell
MaxLen == 2

\* a string is its first five characters and the rest
Str(prefix, rest) == [t |-> "str", v |-> <<prefix, rest>>]
Num == [t |-> "num", v |-> << >>]
NaN == [t |-> "nan", v |-> << >>]
List(elems) == [t |-> "list", v |-> elems]

\* the keys of a map, in insertion order; the first one starts with gs://
DictKeys == <<Str("gs://", "k1"), Str("", "k2"), Str("", "k3")>>

\* a map of the given values, in insertion order
Dict(vals) ==
  [t |-> "dict", v |-> [i \in 1..Len(vals) |-> <<DictKeys[i], vals[i]>>]]

UrlA == Str("gs://", "a")
UrlB == Str("gs://", "b")

\* two urls and a string that holds gs:// but does not start with it
Scalars == {UrlA, UrlB, Str("see g", "s://a")}

SeqsUpTo(V) == UNION {[1..n -> V] : n \in 0..MaxLen}

Containers(V) == {List(q) : q \in SeqsUpTo(V)} \cup {Dict(q) : q \in SeqsUpTo(V)}

\* the values nested inside the outer list or map of a cell
Nested ==
  Scalars \cup {Num, List(<<UrlA, UrlB>>), Dict(<<UrlB>>), List(<<Dict(<<UrlA>>)>>)}

\* the cells: scalars, lists and maps of scalars, lists and maps of nested
\* values, and the missing value
Cells ==
  Scalars \cup {Num, NaN} \cup Containers(Scalars) \cup Containers(Nested)

\* a data frame of two columns
DataFrames ==
  {<<[col |-> "c1", cells |-> <<x>>], [col |-> "c2", cells |-> c2]>> :
     x \in Cells, c2 \in {<<NaN, UrlB>>, <<List(<<UrlA, UrlA>>), Num>>}}

\* df[col].dropna()
col_series(column) ==
  LET Present(x) == x.t # "nan" IN SelectSeq(column.cells, Present)

\* isinstance(current, str) and current.startswith("gs://")
IsGsUrl(current) == current.t = "str" /\ current.v[1] = "gs://"

\* Children with the items of a map for its values
ChildrenItems(current) ==
  IF current.t = "list" THEN current.v
  ELSE IF current.t = "dict"
  THEN [i \in 1..(2 * Len(current.v)) |->
          IF i % 2 = 1 THEN current.v[(i + 1) \div 2][1]
          ELSE current.v[i \div 2][2]]
  ELSE << >>

\* what stack.extend puts on the stack: the elements of a list, the values
\* of a map, utils.py:108-111
Children(current) ==
  IF current.t = "list" THEN current.v
  ELSE IF current.t = "dict"
  THEN [i \in 1..Len(current.v) |-> current.v[i][2]]
  ELSE << >>

CollectInit ==
  /\ cmd = "collect_gs_urls"
  /\ df \in DataFrames
  /\ col_i = 1
  /\ val_i = 0
  /\ stack = << >>
  /\ url_rows = << >>
  /\ cpc = "cells"

\* utils.py:97-101: the next cell of the column, or the next column, or the
\* return of the rows
NextVal ==
  /\ cmd = "collect_gs_urls" /\ cpc = "cells"
  /\ stack = << >>
  /\ IF val_i < Len(col_series(df[col_i]))
     THEN /\ val_i' = val_i + 1
          /\ stack' = <<col_series(df[col_i])[val_i + 1]>>
          /\ UNCHANGED <<col_i, cpc>>
     ELSE IF col_i < Len(df)
     THEN /\ col_i' = col_i + 1
          /\ val_i' = 0
          /\ UNCHANGED <<stack, cpc>>
     ELSE /\ cpc' = "returned"
          /\ UNCHANGED <<col_i, val_i, stack>>
  /\ UNCHANGED <<cmd, jobVars, planVars, cleanVars, retryVars, inventoryVars, cliVars, poolVars, df,
                 url_rows>>

\* utils.py:103-111: one turn of the while loop
Pop ==
  /\ cmd = "collect_gs_urls" /\ cpc = "cells"
  /\ stack # << >>
  /\ LET current == stack[Len(stack)]
     IN /\ url_rows' = IF IsGsUrl(current)
                   THEN Append(url_rows, [url |-> current, col |-> df[col_i].col])
                   ELSE url_rows
        /\ stack' = IF IsGsUrl(current) THEN SubSeq(stack, 1, Len(stack) - 1)
                    ELSE SubSeq(stack, 1, Len(stack) - 1) \o Children(current)
  /\ UNCHANGED <<cmd, jobVars, planVars, cleanVars, retryVars, inventoryVars, cliVars, poolVars, df,
                 col_i, val_i, cpc>>

CollectNext == NextVal \/ Pop

CollectIdle ==
  /\ df = << >>
  /\ col_i = 0
  /\ val_i = 0
  /\ stack = << >>
  /\ url_rows = << >>
  /\ cpc = "off"

\* ------------------------------------------- InventoryGenerator and run_all
\* psutil.cpu_count(), the threads of the pool of write_inventory
n_workers == 2

\* the most pages a listing has
MaxPages == 2

\* the blobs of a full page of the listing
page_size == 2

\* queue_size=self.n_workers * 2
inv_queue_size == n_workers * 2

\* the blobs of a page: the last page of a listing is not full
PageLen(p) == IF p = n_pages THEN 1 ELSE page_size

\* the JSON line of a blob of a page, written by a call of write_inventory
BlobLine(c, p, k) == [call |-> c, page |-> p, k |-> k]

\* a line some earlier run left in the file
OldLine == BlobLine(0, 0, 0)

\* the file is made by the generator made directly, on a bucket of at most
\* one page, or by the command
InventoryCmds == {"InventoryGenerator", "run_all"}

InvNoThread == [st |-> "none", page |-> 0, k |-> 0]

InvNumThreads == Cardinality({w \in 1..n_workers : inv_threads[w].st # "none"})

InventoryInit ==
  /\ cmd \in InventoryCmds
  /\ old_file \in {<< >>, <<OldLine>>}
  /\ inventory_file = old_file
  /\ n_pages \in 0..(IF cmd = "run_all" THEN MaxPages ELSE 1)
  /\ page_i = 0
  /\ ipc = "construct"
  /\ call = 0
  /\ inv_queue = << >>
  /\ inv_threads = [w \in 1..n_workers |-> InvNoThread]
  /\ inv_idle = 0
  /\ file_lock = 0
  /\ n_blobs_written = 0
  /\ task_errors = {}
  /\ list_error = FALSE
  /\ phases = IF cmd = "run_all" THEN <<"inventory">> ELSE << >>
  /\ plan_read = << >>

\* Construct without the truncation of the file
ConstructKeeps ==
  /\ cmd \in InventoryCmds /\ ipc = "construct"
  /\ \/ /\ ipc' = "raised"
        /\ UNCHANGED <<inventory_file, call>>
     \/ /\ inventory_file' = inventory_file
        /\ ipc' = "list"
        /\ call' = 1
  /\ UNCHANGED <<cmd, jobVars, planVars, cleanVars, retryVars, collectVars, cliVars, poolVars, old_file,
                 n_pages, page_i, inv_queue, inv_threads, inv_idle, file_lock,
                 n_blobs_written, task_errors, list_error, phases, plan_read>>

\* InventoryGenerator.__init__, inventory.py:34-51, and the entry of the first
\* write_inventory: the name of the bucket is fetched, which can raise; the
\* locks and the counter are made and the file is truncated
Construct ==
  /\ cmd \in InventoryCmds /\ ipc = "construct"
  /\ \/ /\ ipc' = "raised"
        /\ UNCHANGED <<inventory_file, call>>
     \/ /\ inventory_file' = << >>
        /\ ipc' = "list"
        /\ call' = 1
  /\ UNCHANGED <<cmd, jobVars, planVars, cleanVars, retryVars, collectVars, cliVars, poolVars, old_file,
                 n_pages, page_i, inv_queue, inv_threads, inv_idle, file_lock,
                 n_blobs_written, task_errors, list_error, phases, plan_read>>

\* ThreadPoolExecutor._adjust_thread_count: the threads after a submit
InvAdjustThreads ==
  IF inv_idle > 0 \/ InvNumThreads = n_workers THEN inv_threads
  ELSE LET w == CHOOSE x \in 1..n_workers :
                  /\ inv_threads[x].st = "none"
                  /\ \A y \in 1..(x - 1) : inv_threads[y].st # "none"
       IN [inv_threads EXCEPT ![w].st = "waiting"]

\* write_inventory, inventory.py:67-69: the next page is fetched and its task
\* is put on the queue; the put blocks while the queue is full
ListPage ==
  /\ cmd \in InventoryCmds /\ ipc = "list"
  /\ page_i < n_pages
  /\ Len(inv_queue) < inv_queue_size
  /\ inv_queue' = Append(inv_queue, page_i + 1)
  /\ inv_threads' = InvAdjustThreads
  /\ inv_idle' = IF inv_idle > 0 THEN inv_idle - 1 ELSE inv_idle
  /\ page_i' = page_i + 1
  /\ UNCHANGED <<cmd, jobVars, planVars, cleanVars, retryVars, collectVars, cliVars, poolVars, old_file,
                 inventory_file, n_pages, ipc, call, file_lock,
                 n_blobs_written, task_errors, list_error, phases, plan_read>>

\* write_inventory, inventory.py:61-67: list_blobs or the fetch of a page
\* raises; the error leaves the with block
ListRaises ==
  /\ cmd \in InventoryCmds /\ ipc = "list"
  /\ list_error' = TRUE
  /\ ipc' = "exit"
  /\ UNCHANGED <<cmd, jobVars, planVars, cleanVars, retryVars, collectVars, cliVars, poolVars, old_file,
                 inventory_file, n_pages, page_i, call, inv_queue, inv_threads,
                 inv_idle, file_lock, n_blobs_written, task_errors, phases,
                 plan_read>>

\* the exit of the with block, inventory.py:58-60, after the last page or
\* with the error of the listing: shutdown puts the sentinel on the queue
InvShutdown ==
  /\ cmd \in InventoryCmds
  /\ (ipc = "list" /\ page_i = n_pages) \/ ipc = "exit"
  /\ Len(inv_queue) < inv_queue_size
  /\ inv_queue' = Append(inv_queue, 0)
  /\ ipc' = "join"
  /\ UNCHANGED <<cmd, jobVars, planVars, cleanVars, retryVars, collectVars, cliVars, poolVars, old_file,
                 inventory_file, n_pages, page_i, call, inv_threads, inv_idle,
                 file_lock, n_blobs_written, task_errors, list_error, phases,
                 plan_read>>

\* InvJoin without the wait for the threads
InvJoinNoWait ==
  /\ cmd \in InventoryCmds /\ ipc = "join"
  /\ ipc' = IF list_error THEN "raised" ELSE "returned"
  /\ UNCHANGED <<cmd, jobVars, planVars, cleanVars, retryVars, collectVars, cliVars, poolVars, old_file,
                 inventory_file, n_pages, page_i, call, inv_queue, inv_threads,
                 inv_idle, file_lock, n_blobs_written, task_errors, list_error,
                 phases, plan_read>>

\* shutdown(wait=True) has joined every thread: write_inventory returns, or
\* raises the error of the listing; the futures of the tasks are not read
InvJoin ==
  /\ cmd \in InventoryCmds /\ ipc = "join"
  /\ \A w \in 1..n_workers : inv_threads[w].st \in {"none", "exited"}
  /\ ipc' = IF list_error THEN "raised" ELSE "returned"
  /\ UNCHANGED <<cmd, jobVars, planVars, cleanVars, retryVars, collectVars, cliVars, poolVars, old_file,
                 inventory_file, n_pages, page_i, call, inv_queue, inv_threads,
                 inv_idle, file_lock, n_blobs_written, task_errors, list_error,
                 phases, plan_read>>

\* _worker: a thread takes the next item; on the sentinel it puts it back
\* for the other threads and ends; else it builds the lines of the page,
\* inventory.py:78-88
InvWorkerGet(w) ==
  /\ cmd \in InventoryCmds
  /\ inv_threads[w].st = "waiting"
  /\ inv_queue # << >>
  /\ LET item == Head(inv_queue)
     IN IF item = 0
        THEN /\ inv_queue' = Append(Tail(inv_queue), 0)
             /\ inv_threads' = [inv_threads EXCEPT ![w].st = "exited"]
        ELSE /\ inv_queue' = Tail(inv_queue)
             /\ inv_threads' = [inv_threads EXCEPT ![w] =
                  [st |-> "lock", page |-> item, k |-> 0]]
  /\ UNCHANGED <<cmd, jobVars, planVars, cleanVars, retryVars, collectVars, cliVars, poolVars, old_file,
                 inventory_file, n_pages, page_i, ipc, call, inv_idle,
                 file_lock, n_blobs_written, task_errors, list_error, phases,
                 plan_read>>

\* write_page_of_blobs, inventory.py:91: with self.file_lock
AcquireFileLock(w) ==
  /\ cmd \in InventoryCmds
  /\ inv_threads[w].st = "lock"
  /\ file_lock = 0
  /\ file_lock' = w
  /\ inv_threads' = [inv_threads EXCEPT ![w].st = "write"]
  /\ UNCHANGED <<cmd, jobVars, planVars, cleanVars, retryVars, collectVars, cliVars, poolVars, old_file,
                 inventory_file, n_pages, page_i, ipc, call, inv_queue,
                 inv_idle, n_blobs_written, task_errors, list_error, phases,
                 plan_read>>

\* write_page_of_blobs, inventory.py:92-93: the next line of the page is
\* appended to the file
WriteLine(w) ==
  /\ cmd \in InventoryCmds
  /\ inv_threads[w].st = "write"
  /\ inv_threads[w].k < PageLen(inv_threads[w].page)
  /\ inventory_file' = Append(inventory_file,
       BlobLine(call, inv_threads[w].page, inv_threads[w].k + 1))
  /\ inv_threads' = [inv_threads EXCEPT ![w].k = @ + 1]
  /\ UNCHANGED <<cmd, jobVars, planVars, cleanVars, retryVars, collectVars, cliVars, poolVars, old_file,
                 n_pages, page_i, ipc, call, inv_queue, inv_idle, file_lock,
                 n_blobs_written, task_errors, list_error, phases, plan_read>>

\* write_page_of_blobs, inventory.py:92-93: open or writelines raises an
\* OSError with some lines of the page written; the lock is released, the
\* error goes to the future of the task and the thread is idle
WriteRaises(w) ==
  /\ cmd \in InventoryCmds
  /\ inv_threads[w].st = "write"
  /\ inv_threads[w].k < PageLen(inv_threads[w].page)
  /\ file_lock' = 0
  /\ task_errors' = task_errors \cup {<<call, inv_threads[w].page>>}
  /\ inv_threads' = [inv_threads EXCEPT ![w] =
                       [st |-> "waiting", page |-> 0, k |-> 0]]
  /\ inv_idle' = inv_idle + 1
  /\ UNCHANGED <<cmd, jobVars, planVars, cleanVars, retryVars, collectVars, cliVars, poolVars, old_file,
                 inventory_file, n_pages, page_i, ipc, call, inv_queue,
                 n_blobs_written, list_error, phases, plan_read>>

\* write_page_of_blobs, inventory.py:91-93: the file is closed and the lock
\* released
ReleaseFileLock(w) ==
  /\ cmd \in InventoryCmds
  /\ inv_threads[w].st = "write"
  /\ inv_threads[w].k = PageLen(inv_threads[w].page)
  /\ file_lock' = 0
  /\ inv_threads' = [inv_threads EXCEPT ![w].st = "count"]
  /\ UNCHANGED <<cmd, jobVars, planVars, cleanVars, retryVars, collectVars, cliVars, poolVars, old_file,
                 inventory_file, n_pages, page_i, ipc, call, inv_queue,
                 inv_idle, n_blobs_written, task_errors, list_error, phases,
                 plan_read>>

\* write_page_of_blobs, inventory.py:96-98: the counter is updated under
\* counter_lock; the task ends and the thread is idle
CountBlobs(w) ==
  /\ cmd \in InventoryCmds
  /\ inv_threads[w].st = "count"
  /\ n_blobs_written' = n_blobs_written + PageLen(inv_threads[w].page)
  /\ inv_threads' = [inv_threads EXCEPT ![w] =
                       [st |-> "waiting", page |-> 0, k |-> 0]]
  /\ inv_idle' = inv_idle + 1
  /\ UNCHANGED <<cmd, jobVars, planVars, cleanVars, retryVars, collectVars, cliVars, poolVars, old_file,
                 inventory_file, n_pages, page_i, ipc, call, inv_queue,
                 file_lock, task_errors, list_error, phases, plan_read>>

\* a second call of write_inventory on the generator, inventory.py:53-65: a
\* new pool and a new listing of the same bucket; nothing truncates the file
WriteInventoryAgain ==
  /\ cmd = "InventoryGenerator" /\ ipc = "returned"
  /\ call = 1
  /\ call' = 2
  /\ ipc' = "list"
  /\ page_i' = 0
  /\ inv_queue' = << >>
  /\ inv_threads' = [w \in 1..n_workers |-> InvNoThread]
  /\ inv_idle' = 0
  /\ UNCHANGED <<cmd, jobVars, planVars, cleanVars, retryVars, collectVars, cliVars, poolVars, old_file,
                 inventory_file, n_pages, file_lock, n_blobs_written,
                 task_errors, list_error, phases, plan_read>>

\* run_all, __main__.py:258-274: inventory has returned and plan is called,
\* which reads the file at inventory_path
RunPlan ==
  /\ cmd = "run_all" /\ ipc = "returned"
  /\ phases = <<"inventory">>
  /\ phases' = Append(phases, "plan")
  /\ plan_read' = inventory_file
  /\ UNCHANGED <<cmd, jobVars, planVars, cleanVars, retryVars, collectVars, cliVars, poolVars, old_file,
                 inventory_file, n_pages, page_i, ipc, call, inv_queue,
                 inv_threads, inv_idle, file_lock, n_blobs_written,
                 task_errors, list_error>>

\* run_all, __main__.py:266-283: plan has returned and clean is called
RunClean ==
  /\ cmd = "run_all" /\ ipc = "returned"
  /\ phases = <<"inventory", "plan">>
  /\ phases' = Append(phases, "clean")
  /\ UNCHANGED <<cmd, jobVars, planVars, cleanVars, retryVars, collectVars, cliVars, poolVars, old_file,
                 inventory_file, n_pages, page_i, ipc, call, inv_queue,
                 inv_threads, inv_idle, file_lock, n_blobs_written,
                 task_errors, list_error, plan_read>>

InventoryNext ==
  \/ Construct
  \/ ListPage
  \/ ListRaises
  \/ InvShutdown
  \/ InvJoin
  \/ \E w \in 1..n_workers : InvWorkerGet(w)
  \/ \E w \in 1..n_workers : AcquireFileLock(w)
  \/ \E w \in 1..n_workers : WriteLine(w)
  \/ \E w \in 1..n_workers : WriteRaises(w)
  \/ \E w \in 1..n_workers : ReleaseFileLock(w)
  \/ \E w \in 1..n_workers : CountBlobs(w)
  \/ WriteInventoryAgain
  \/ RunPlan
  \/ RunClean

InventoryIdle ==
  /\ old_file = << >>
  /\ inventory_file = << >>
  /\ n_pages = 0
  /\ page_i = 0
  /\ ipc = "off"
  /\ call = 0
  /\ inv_queue = << >>
  /\ inv_threads = << >>
  /\ inv_idle = 0
  /\ file_lock = 0
  /\ n_blobs_written = 0
  /\ task_errors = {}
  /\ list_error = FALSE
  /\ phases = << >>
  /\ plan_read = << >>

\* --------------------------------------------------------- the command line
\* the options of the subcommands inventory, plan, clean and run_all
Options ==
  {"workspace_namespace", "workspace_name", "gcp_project_id", "inventory_path",
   "plan_path", "days_considered_old", "bytes_considered_large"}

Commands == {"inventory", "plan", "clean", "run_all"}

\* the options a phase function checks, or the keys it reads of the config
Required(phase) ==
  CASE phase = "inventory" ->
         {"workspace_namespace", "workspace_name", "gcp_project_id",
          "inventory_path"}
    [] phase = "plan" ->
         {"workspace_namespace", "workspace_name", "inventory_path",
          "plan_path", "days_considered_old", "bytes_considered_large"}
    [] phase = "clean" ->
         {"workspace_namespace", "workspace_name", "plan_path",
          "gcp_project_id"}

\* the phase functions a subcommand calls, in order
PhasesOf(c) ==
  IF c = "run_all" THEN <<"inventory", "plan", "clean">> ELSE <<c>>

\* what a phase does once its arguments are there: InventoryGenerator asks
\* the workspace for its bucket, truncates the file, lists the bucket and
\* writes the file; write_plan writes the plan file; do_clean asks the
\* workspaces for their references, updates the plan and deletes
EffectsOf(phase) ==
  CASE phase = "inventory" ->
         {"workspace_api", "file_truncated", "storage_api", "file_written"}
    [] phase = "plan" -> {"plan_written"}
    [] phase = "clean" -> {"workspace_api", "plan_updated", "storage_api"}

\* the phase that follows in the subcommand, or the end
AfterPhase(phase) ==
  LET ps == PhasesOf(command)
      i == CHOOSE k \in 1..Len(ps) : ps[k] = phase
  IN IF i < Len(ps) THEN ps[i + 1] ELSE "done"

CliInit ==
  /\ cmd = "cli"
  /\ command \in Commands
  /\ from_config \in BOOLEAN
  /\ given \in SUBSET Options
  /\ cli_pc = PhasesOf(command)[1]
  /\ effects = {}

\* inventory, plan or clean of __main__.py, called by typer or by run_all:
\* without a config file the function raises BadParameter for the first of
\* its own options that is missing, with one the lookup of a missing key
\* raises KeyError; else the phase runs
RunPhase(phase) ==
  /\ cmd = "cli" /\ cli_pc = phase
  /\ IF ~(Required(phase) \subseteq given)
     THEN /\ cli_pc' = IF from_config THEN "KeyError" ELSE "BadParameter"
          /\ effects' = effects
     ELSE /\ cli_pc' = AfterPhase(phase)
          /\ effects' = effects \cup EffectsOf(phase)
  /\ UNCHANGED <<cmd, jobVars, planVars, cleanVars, retryVars, collectVars,
                 inventoryVars, poolVars, command, from_config, given>>

CliNext ==
  \/ RunPhase("inventory")
  \/ RunPhase("plan")
  \/ RunPhase("clean")

CliIdle ==
  /\ command = ""
  /\ from_config = FALSE
  /\ given = {}
  /\ cli_pc = "off"
  /\ effects = {}

\* ------------------------------------------------ BoundedThreadPoolExecutor
\* the most work items a submitter has
MaxItems == 4

PoolNoThread == [st |-> "none", item |-> 0]

PoolNumThreads ==
  Cardinality({w \in 1..max_workers : pool_threads[w].st # "none"})

\* BoundedThreadPoolExecutor(max_workers=max_workers, queue_size=queue_size),
\* utils.py:135-144: the queue of the pool is a Queue(queue_size)
PoolInit ==
  /\ cmd = "BoundedThreadPoolExecutor"
  /\ n_items \in 0..MaxItems
  /\ submitted = 0
  /\ pool_queue = << >>
  /\ pool_threads = [w \in 1..max_workers |-> PoolNoThread]
  /\ pool_idle = 0
  /\ finished = {}
  /\ ppc = "submit"

\* ThreadPoolExecutor._adjust_thread_count: the threads after a submit
PoolAdjustThreads ==
  IF pool_idle > 0 \/ PoolNumThreads = max_workers THEN pool_threads
  ELSE LET w == CHOOSE x \in 1..max_workers :
                  /\ pool_threads[x].st = "none"
                  /\ \A y \in 1..(x - 1) : pool_threads[y].st # "none"
       IN [pool_threads EXCEPT ![w].st = "waiting"]

\* PoolSubmit on a queue without a size
PoolSubmitUnbounded ==
  /\ cmd = "BoundedThreadPoolExecutor" /\ ppc = "submit"
  /\ submitted < n_items
  /\ pool_queue' = Append(pool_queue, submitted + 1)
  /\ pool_threads' = PoolAdjustThreads
  /\ pool_idle' = IF pool_idle > 0 THEN pool_idle - 1 ELSE pool_idle
  /\ submitted' = submitted + 1
  /\ UNCHANGED <<cmd, jobVars, planVars, cleanVars, retryVars, collectVars,
                 inventoryVars, cliVars, n_items, finished, ppc>>

\* submit: _work_queue.put(w) blocks while the Queue holds queue_size items,
\* then a thread is started if none is idle
PoolSubmit ==
  /\ cmd = "BoundedThreadPoolExecutor" /\ ppc = "submit"
  /\ submitted < n_items
  /\ Len(pool_queue) < queue_size
  /\ pool_queue' = Append(pool_queue, submitted + 1)
  /\ pool_threads' = PoolAdjustThreads
  /\ pool_idle' = IF pool_idle > 0 THEN pool_idle - 1 ELSE pool_idle
  /\ submitted' = submitted + 1
  /\ UNCHANGED <<cmd, jobVars, planVars, cleanVars, retryVars, collectVars,
                 inventoryVars, cliVars, n_items, finished, ppc>>

\* the exit of the with block: shutdown puts the sentinel on the queue
PoolShutdown ==
  /\ cmd = "BoundedThreadPoolExecutor" /\ ppc = "submit"
  /\ submitted = n_items
  /\ Len(pool_queue) < queue_size
  /\ pool_queue' = Append(pool_queue, 0)
  /\ ppc' = "join"
  /\ UNCHANGED <<cmd, jobVars, planVars, cleanVars, retryVars, collectVars,
                 inventoryVars, cliVars, n_items, submitted, pool_threads,
                 pool_idle, finished>>

\* shutdown(wait=True) has joined every thread
PoolJoin ==
  /\ cmd = "BoundedThreadPoolExecutor" /\ ppc = "join"
  /\ \A w \in 1..max_workers : pool_threads[w].st \in {"none", "exited"}
  /\ ppc' = "done"
  /\ UNCHANGED <<cmd, jobVars, planVars, cleanVars, retryVars, collectVars,
                 inventoryVars, cliVars, n_items, submitted, pool_queue,
                 pool_threads, pool_idle, finished>>

\* _worker: a thread takes the next item with work_queue.get(block=True);
\* the sentinel it has yet to put back
PoolGet(w) ==
  /\ cmd = "BoundedThreadPoolExecutor"
  /\ pool_threads[w].st = "waiting"
  /\ pool_queue # << >>
  /\ LET item == Head(pool_queue)
     IN /\ pool_queue' = Tail(pool_queue)
        /\ pool_threads' = [pool_threads EXCEPT ![w] =
             IF item = 0 THEN [st |-> "sentinel", item |-> 0]
             ELSE [st |-> "running", item |-> item]]
  /\ UNCHANGED <<cmd, jobVars, planVars, cleanVars, retryVars, collectVars,
                 inventoryVars, cliVars, n_items, submitted, pool_idle,
                 finished, ppc>>

\* PoolPutBack without the put: the thread that took the sentinel ends
PoolPutBackDrops(w) ==
  /\ cmd = "BoundedThreadPoolExecutor"
  /\ pool_threads[w].st = "sentinel"
  /\ pool_threads' = [pool_threads EXCEPT ![w].st = "exited"]
  /\ UNCHANGED <<cmd, jobVars, planVars, cleanVars, retryVars, collectVars,
                 inventoryVars, cliVars, n_items, submitted, pool_queue,
                 pool_idle, finished, ppc>>

\* _worker: the thread that took the sentinel puts it back for the other
\* threads with work_queue.put(None), which blocks while the queue is full,
\* and ends
PoolPutBack(w) ==
  /\ cmd = "BoundedThreadPoolExecutor"
  /\ pool_threads[w].st = "sentinel"
  /\ Len(pool_queue) < queue_size
  /\ pool_queue' = Append(pool_queue, 0)
  /\ pool_threads' = [pool_threads EXCEPT ![w].st = "exited"]
  /\ UNCHANGED <<cmd, jobVars, planVars, cleanVars, retryVars, collectVars,
                 inventoryVars, cliVars, n_items, submitted, pool_idle,
                 finished, ppc>>

\* _worker: the work item has run, with a result or an error in its future,
\* and the thread is idle
PoolRun(w) ==
  /\ cmd = "BoundedThreadPoolExecutor"
  /\ pool_threads[w].st = "running"
  /\ finished' = finished \cup {pool_threads[w].item}
  /\ pool_threads' = [pool_threads EXCEPT ![w] = [st |-> "waiting", item |-> 0]]
  /\ pool_idle' = pool_idle + 1
  /\ UNCHANGED <<cmd, jobVars, planVars, cleanVars, retryVars, collectVars,
                 inventoryVars, cliVars, n_items, submitted, pool_queue, ppc>>

PoolNext ==
  \/ PoolSubmit
  \/ PoolShutdown
  \/ PoolJoin
  \/ \E w \in 1..max_workers : PoolGet(w)
  \/ \E w \in 1..max_workers : PoolPutBack(w)
  \/ \E w \in 1..max_workers : PoolRun(w)

PoolIdle ==
  /\ n_items = 0
  /\ submitted = 0
  /\ pool_queue = << >>
  /\ pool_threads = << >>
  /\ pool_idle = 0
  /\ finished = {}
  /\ ppc = "off"

\* ------------------------------------------------------- make_batch_job_id
\* the limit of a job id of GCP Batch, batch.py:163
max_job_id_len == 63

\* the longest head of a workspace name, and the longest run of x in it
MaxAffix == 1
MaxPad == 38

LowercaseLetters ==
  {"a", "b", "c", "d", "e", "f", "g", "h", "i", "j", "k", "l", "m", "n", "o",
   "p", "q", "r", "s", "t", "u", "v", "w", "x", "y", "z"}

Digits == {"0", "1", "2", "3", "4", "5", "6", "7", "8", "9"}

\* the characters a workspace name is drawn from: letters of both cases,
\* digits, punctuation, and a letter outside ASCII in both cases
NameChars ==
  {"a", "z", "A", "Z", "0", "9", "-", "_", " ", "U+00C9", "U+00E9"}

\* str.lower() of one character
Lower(ch) ==
  CASE ch = "A" -> "a"
    [] ch = "Z" -> "z"
    [] ch = "U+00C9" -> "U+00E9"
    [] OTHER -> ch

\* re.sub(r'[^a-z0-9]', '-', ...) of one character
SubNonAlnum(ch) == IF ch \in LowercaseLetters \cup Digits THEN ch ELSE "-"

\* re.sub(r'[^a-z0-9]', '-', workspace_name.lower())
Sanitized(text) == [j \in 1..Len(text) |-> SubNonAlnum(Lower(text[j]))]

\* text[:len]
Truncated(text, len) == SubSeq(text, 1, IF Len(text) < len THEN Len(text) ELSE len)

ArretPrefix == <<"a", "r", "r", "e", "t", "-">>

\* avail_job_id_len without the two hyphens of the join
avail_job_id_len_unjoined(part1, part2) ==
  max_job_id_len - (Len(part1) + Len(part2))

\* 63 - (len(job_id_parts[1]) + len(job_id_parts[2]) + 2)
avail_job_id_len(part1, part2) ==
  max_job_id_len - (Len(part1) + Len(part2) + 2)

\* batch.py:148-166
make_batch_job_id(text, date_text, uuid_text) ==
  LET part0 == ArretPrefix \o Sanitized(text)
  IN Truncated(part0, avail_job_id_len(date_text, uuid_text))
       \o <<"-">> \o date_text \o <<"-">> \o uuid_text

\* the workspace names: a head, a run of x, and a last character or none
WorkspaceNames ==
  {h \o [j \in 1..m |-> "x"] \o t :
     h \in UNION {[1..len -> NameChars] : len \in 0..MaxAffix},
     m \in {0} \cup (MaxPad - 3)..MaxPad,
     t \in {<< >>} \cup {<<ch>> : ch \in NameChars}}

\* strftime("%Y-%m-%d")
DateTexts ==
  {<<"2", "0", "2", "4", "-", "0", "2", "-", "2", "9">>,
   <<"9", "9", "9", "9", "-", "1", "2", "-", "3", "1">>}

\* the first group of a uuid4: eight hexadecimal digits
UuidTexts ==
  {<<"0", "0", "0", "0", "0", "0", "0", "0">>,
   <<"9", "f", "8", "e", "7", "a", "6", "b">>}

JobInit ==
  /\ cmd = "make_batch_job_id"
  /\ workspace_name \in WorkspaceNames
  /\ today \in DateTexts
  /\ uuid_part \in UuidTexts
  /\ job_id = << >>

MakeBatchJobId ==
  /\ cmd = "make_batch_job_id"
  /\ job_id = << >>
  /\ job_id' = make_batch_job_id(workspace_name, today, uuid_part)
  /\ UNCHANGED <<cmd, planVars, cleanVars, retryVars, collectVars,
                 inventoryVars, cliVars, poolVars, workspace_name, today,
                 uuid_part>>

JobNext == MakeBatchJobId

JobIdle ==
  /\ workspace_name = << >>
  /\ today = << >>
  /\ uuid_part = << >>
  /\ job_id = << >>

\* the variables of the other commands and functions, not running
OtherIdle ==
  RetryIdle /\ CollectIdle /\ InventoryIdle /\ CliIdle /\ PoolIdle /\ JobIdle

\* the command plan
InitPlan == PlanInit /\ CleanIdle /\ OtherIdle

\* the command clean
InitClean == CleanInit /\ PlanIdle /\ OtherIdle

\* a call of call_firecloud_api
InitRetry ==
  RetryInit /\ PlanIdle /\ CleanIdle /\ CollectIdle /\ InventoryIdle /\ CliIdle
  /\ PoolIdle /\ JobIdle

\* a call of collect_gs_urls
InitCollect ==
  CollectInit /\ PlanIdle /\ CleanIdle /\ RetryIdle /\ InventoryIdle /\ CliIdle
  /\ PoolIdle /\ JobIdle

\* an InventoryGenerator is made and used, directly or by run_all
InitInventory ==
  InventoryInit /\ PlanIdle /\ CleanIdle /\ RetryIdle /\ CollectIdle /\ CliIdle
  /\ PoolIdle /\ JobIdle

SpecInventory == InitInventory /\ [][InventoryNext]_vars

\* a subcommand of the command line
InitCli ==
  CliInit /\ PlanIdle /\ CleanIdle /\ RetryIdle /\ CollectIdle /\ InventoryIdle
  /\ PoolIdle /\ JobIdle

SpecCli == InitCli /\ [][CliNext]_vars

\* a submitter and a BoundedThreadPoolExecutor
InitPool ==
  PoolInit /\ PlanIdle /\ CleanIdle /\ RetryIdle /\ CollectIdle /\ InventoryIdle
  /\ CliIdle /\ JobIdle

SpecPool == InitPool /\ [][PoolNext]_vars

\* a call of make_batch_job_id
InitJob ==
  JobInit /\ PlanIdle /\ CleanIdle /\ RetryIdle /\ CollectIdle /\ InventoryIdle
  /\ CliIdle /\ PoolIdle

SpecJob == InitJob /\ [][JobNext]_vars

\* the submitter and every thread of the pool go on when they can, and
\* every task that runs ends
PoolFairness ==
  /\ WF_vars(PoolSubmit)
  /\ WF_vars(PoolShutdown)
  /\ WF_vars(PoolJoin)
  /\ \A w \in 1..max_workers :
       WF_vars(PoolGet(w)) /\ WF_vars(PoolPutBack(w)) /\ WF_vars(PoolRun(w))

SpecPoolLive == InitPool /\ [][PoolNext]_vars /\ PoolFairness

SpecCollect == InitCollect /\ [][CollectNext]_vars

SpecRetry == InitRetry /\ [][RetryNext]_vars

SpecPlan == InitPlan /\ [][PlanNext]_vars

SpecClean == InitClean /\ [][CleanNext]_vars

Init == InitPlan \/ InitClean

Next == PlanNext \/ CleanNext

Spec == Init /\ [][Next]_vars

\* ------------------------------------------------------------------ claims
Runs == 1..Len(plans)

Referenced(r) == r.gs_url \in gs_urls

\* the object is older than the cutoff of run i
OldAt(r, i) == IsOld(r.updated, run_at[i], days_considered_old)

Large(r) == IsLarge(r.size, size_considered_large)

\* the name holds the literal segment /pipelines-logs/
HasPipelinesLogsSegment(name) ==
  \E i \in 2..(Len(name) - 1) : name[i] = "pipelines-logs"

Range(seq) == {seq[k] : k \in 1..Len(seq)}

\* the rows to_delete_sql holds of, as the plan engine stored them
SqlRows == {n \in RowNames : EvalSql(to_delete_sql, stored[n])}

\* the rows whose url is in the reference set of this run
FreshRows == {n \in RowNames : stored[n].url \in FreshUrls}

Applied == pc \in {"client", "submit", "join", "done", "AssertionError"}

\* C1: no name passed to bucket.delete_blob, and no object removed, has its
\* url in the reference set this run of do_clean computed.
C1_DeletionSafety ==
  \A n \in DOMAIN delete_calls :
    (delete_calls[n] > 0 \/ n \in deleted) => GsUrl(Bucket, n) \notin FreshUrls

C1_Witness ==
  /\ pc = "done"
  /\ Len(fresh_urls) = 2
  /\ deleted = {StdoutLog, AScript}
  /\ GsUrl(Bucket, DataBam) \in fresh_urls[2].urls
  /\ GsUrl(Bucket, DataBam) \notin fresh_urls[1].urls
  /\ DataBam \in SqlRows

\* C2: a referenced object is never marked: no delete operation of a plan
\* covers an object whose url is in the reference set, and after
\* apply_delete_logic every row has to_delete => ~in_data_table, a row whose
\* url is in the reference set having in_data_table and not to_delete.
C2_ReferencedNeverDeleted ==
  /\ \A i \in Runs : \A r \in inv :
       Referenced(r) => r.name \notin PlanBlobs(plans[i])
  /\ Applied =>
       \A n \in RowNames :
         /\ blobs[n].to_delete => ~blobs[n].in_data_table
         /\ blobs[n].url \in FreshUrls =>
              blobs[n].in_data_table /\ ~blobs[n].to_delete

C2_Witness ==
  /\ Len(plans) >= 1
  /\ InvRow(DataBam, [size |-> 3, updated |-> 0]) \in inv
  /\ GsUrl(Bucket, DataBam) \in gs_urls
  /\ DataBam \notin PlanBlobs(plans[1])
  /\ PlanBlobs(plans[1]) # {}

\* C3 as claimed: no delete operation covers an object whose name ends in
\* .log or /script, whatever its age and size.
C3_ForceKeepNeverDeleted ==
  \A i \in Runs : \A r \in inv :
    ForceKeep(r.name) => r.name \notin PlanBlobs(plans[i])

\* C3 amended: the exception holds against the age rule only; an object whose
\* name ends in .log or /script is covered by a delete operation only if it
\* is empty, larger than the threshold or under a pipeline-logs path.
C3_ForceKeepAgainstAgeOnly ==
  \A i \in Runs : \A r \in inv :
    (ForceKeep(r.name) /\ r.name \in PlanBlobs(plans[i]))
      => (r.size = 0 \/ Large(r) \/ IsPipelineLogs(r.name))

C3_Witness ==
  /\ Len(plans) >= 1
  /\ InvRow(AScript, [size |-> 1, updated |-> 0]) \in inv
  /\ GsUrl(Bucket, AScript) \notin gs_urls
  /\ AScript \notin PlanBlobs(plans[1])
  /\ DataBam \in PlanBlobs(plans[1])

\* C4 as claimed: an object is marked only if it is old, large or under a
\* pipeline-logs path.
C4_OnlyOldLargeOrLogs ==
  \A i \in Runs : \A r \in inv :
    r.name \in PlanBlobs(plans[i])
      => (OldAt(r, i) \/ Large(r) \/ IsPipelineLogs(r.name))

\* C4 amended: an object is marked only if it is old, large, under a
\* pipeline-logs path or empty (size 0).
C4_OnlyOldLargeLogsOrEmpty ==
  \A i \in Runs : \A r \in inv :
    r.name \in PlanBlobs(plans[i])
      => (OldAt(r, i) \/ Large(r) \/ IsPipelineLogs(r.name) \/ r.size = 0)

C4_Witness ==
  /\ Len(plans) >= 1
  /\ InvRow(DataBam, [size |-> 1, updated |-> 4]) \in inv
  /\ GsUrl(Bucket, DataBam) \notin gs_urls
  /\ ~OldAt(InvRow(DataBam, [size |-> 1, updated |-> 4]), 1)
  /\ DataBam \notin PlanBlobs(plans[1])
  /\ InvRow(RunLog, [size |-> 0, updated |-> 4]) \in inv
  /\ RunLog \in PlanBlobs(plans[1])

\* C5 as claimed: every name passed to delete_blob had to_delete = true in
\* the plan as the plan engine stored it.
C5_OnlyStoredToDelete ==
  \A n \in DOMAIN delete_calls : delete_calls[n] > 0 => stored[n].to_delete

\* C5 amended: the executor selects exactly the rows of which to_delete_sql
\* holds, evaluated on the stored row, and whose url is absent from the fresh
\* reference set; only selected names are passed to delete_blob.
C5_SelectsBySql ==
  /\ Applied => Range(blobs_to_delete) = SqlRows \ FreshRows
  /\ \A n \in DOMAIN delete_calls :
       delete_calls[n] > 0 => n \in SqlRows \ FreshRows

C5_Witness ==
  /\ pc = "done"
  /\ to_delete_sql = SqlKeep
  /\ ~stored[DataBam].to_delete
  /\ DataBam \in deleted
  /\ AScript \notin FreshRows
  /\ delete_calls[AScript] = 0

C7_PartialFailureIsolation ==
  /\ pc = "done" =>
       /\ blobs_to_delete # << >> => batch_i = n_batches(Len(blobs_to_delete))
       /\ \A n \in Range(blobs_to_delete) :
            delete_calls[n] = 1 /\ n \in deleted \cup errors
  /\ pc \in {"resolve", "client", "submit", "join"} => ENABLED CleanNext

C7_Witness ==
  /\ pc = "done"
  /\ errors = {DataBam}
  /\ deleted = {StdoutLog, AScript}

\* C8 as claimed: every unreferenced object whose name holds the segment
\* /pipelines-logs/ is covered by a delete operation.
C8_PipelineLogsDeleted ==
  \A i \in Runs : \A r \in inv :
    (~Referenced(r) /\ HasPipelinesLogsSegment(r.name))
      => r.name \in PlanBlobs(plans[i])

\* C9 as claimed: every unreferenced object that is not force-kept and is
\* larger than the threshold is covered by a delete operation.
C9_LargeDeleted ==
  \A i \in Runs : \A r \in inv :
    (~Referenced(r) /\ ~ForceKeep(r.name) /\ Large(r))
      => r.name \in PlanBlobs(plans[i])

\* some object's name is a proper path prefix of another object's name
IsPrefixName(a, b) == Len(a) < Len(b) /\ SubSeq(b, 1, Len(a)) = a

NoPrefixNames ==
  \A r1 \in inv : \A r2 \in inv : ~IsPrefixName(r1.name, r2.name)

\* C8 and C9 hold of the inventories in which no name is a prefix of another
PipelineLogsDeletedWithoutPrefixNames == NoPrefixNames => C8_PipelineLogsDeleted

LargeDeletedWithoutPrefixNames == NoPrefixNames => C9_LargeDeleted

\* C10 as claimed: two runs on the same inventory, reference set and
\* thresholds return the same plan.
C10_SameInputsSamePlan == Len(plans) = 2 => plans[1] = plans[2]

\* C10 amended: two runs on the same inventory, reference set and thresholds
\* that read the same calendar date from the clock return the same plan.
C10_SameDateSamePlan ==
  (Len(plans) = 2 /\ DateOf(run_at[1]) = DateOf(run_at[2]))
    => plans[1] = plans[2]

C10_Witness ==
  /\ Len(plans) = 2
  /\ run_at[1] < run_at[2]
  /\ DateOf(run_at[1]) = DateOf(run_at[2])
  /\ Len(plans[2]) >= 2
  /\ \E r \in inv : r.updated = 4 /\ ~Referenced(r)

\* the names a worker holds: those left of its batch and those it deferred
Held(w) == Range(threads[w].batch) \cup threads[w].pending

\* C11: every batch do_clean submits holds at most max_batch_size names, for
\* every size of the selection, and the names a worker defers inside one
\* batch context are names of one submitted batch.
C11_BatchWithinLimit ==
  /\ \A n \in 1..MaxSelection : batch_size(n) <= max_batch_size
  /\ \A k \in 1..Len(work_queue) : Len(work_queue[k].batch) <= max_batch_size
  /\ \A w \in DOMAIN threads :
       /\ Cardinality(Held(w)) <= max_batch_size
       /\ threads[w].st = "running" =>
            \E i \in 0..(n_batches(Len(blobs_to_delete)) - 1) :
              Held(w) \subseteq Range(BatchOf(blobs_to_delete, i))

C11_Witness ==
  /\ pc \in {"submit", "join"}
  /\ Len(blobs_to_delete) > max_batch_size
  /\ \E w \in DOMAIN threads :
       /\ threads[w].st = "running"
       /\ threads[w].batch = << >>
       /\ Cardinality(threads[w].pending) = max_batch_size

\* C14: when the fetch of an entity type of a checked workspace raises,
\* do_clean ends with the error: the plan is not updated, nothing is selected
\* and no name is passed to delete_blob; the deletion logic is applied only
\* to the references of every workspace to check, none of their fetches
\* having raised.
C14_ResolvingErrorAborts ==
  /\ fetch_errors # {} =>
       /\ pc = "RequestException"
       /\ blobs = stored
       /\ blobs_to_delete = << >>
       /\ work_queue = << >>
       /\ deleted = {}
       /\ \A n \in RowNames : delete_calls[n] = 0
  /\ Applied =>
       /\ fetch_errors = {}
       /\ Len(fresh_urls) = Len(workspaces_to_check)
       /\ \A i \in 1..Len(fresh_urls) :
            fresh_urls[i].workspace = workspaces_to_check[i]

C14_Witness ==
  /\ pc = "RequestException"
  /\ Len(fresh_urls) = 1
  /\ fetch_errors = {<<Sibling, "sample">>}
  /\ to_delete_sql = SqlStored
  /\ stored[AScript].to_delete
  /\ GsUrl(Bucket, AScript) \notin FreshUrls

\* the calls of func that raised a connection error
ConnectionErrors == {k \in 1..Len(calls) :
                       calls[k].kind = "exc" /\ calls[k].type \in retryable_exceptions}

\* C18: func is called at most max_retries + 1 times, every call but the
\* last one having raised a connection error; a response ends the calls and
\* is what call_firecloud_api reads; when max_retries + 1 calls raised a
\* connection error the last error is raised to the caller.
C18_BoundedRetry ==
  /\ Len(calls) <= max_retries + 1
  /\ max_retries = DefaultMaxRetries => Len(calls) <= 4
  /\ \A k \in 1..(Len(calls) - 1) : k \in ConnectionErrors
  /\ Len(waits) = n_retries /\ n_retries = Len(calls) - (IF rpc = "maybe_retry" THEN 0 ELSE 1)
  /\ rpc \in {"status", "returned"} =>
       (calls[Len(calls)].kind = "res" /\ res.attempt = Len(calls))
  /\ (rpc = "maybe_retry" /\ calls # << >>) => Len(calls) \in ConnectionErrors
  /\ (Len(calls) = max_retries + 1 /\ Len(calls) \in ConnectionErrors) =>
       (rpc = "raised" /\ res = calls[Len(calls)])

C18_Witness ==
  /\ max_retries = DefaultMaxRetries
  /\ Len(calls) = 4
  /\ ConnectionErrors = 1..4
  /\ rpc = "raised"
  /\ res.attempt = 4

\* C19 as claimed: for a response that is not 2xx func is not called again
\* and the error raised holds the status code and the body of the response.
C19_ErrorHoldsStatusAndBody ==
  \A k \in 1..Len(calls) :
    (calls[k].kind = "res" /\ ~(200 <= calls[k].status /\ calls[k].status <= 299)
       /\ rpc \notin {"status"})
      => /\ k = Len(calls)
         /\ rpc = "raised"
         /\ res.type = "RequestException"
         /\ res.status = calls[k].status
         /\ res.body = calls[k].body

RECURSIVE FlatAll(_)
\* the strings starting with gs:// reachable in a value: itself, or those of
\* the elements of a list, or those of the values of a map
Flat(v) ==
  IF v.t = "str" THEN (IF v.v[1] = "gs://" THEN <<v>> ELSE << >>)
  ELSE IF v.t = "list" THEN FlatAll(v.v)
  ELSE IF v.t = "dict" THEN FlatAll([i \in 1..Len(v.v) |-> v.v[i][2]])
  ELSE << >>

FlatAll(vals) ==
  IF vals = << >> THEN << >> ELSE Flat(Head(vals)) \o FlatAll(Tail(vals))

\* the occurrences of a row in a sequence of rows
Count(rows, x) == Cardinality({i \in 1..Len(rows) : rows[i] = x})

\* the rows of the recursive definition for one column
ColumnRows(column) ==
  LET found == FlatAll(column.cells)
  IN [i \in 1..Len(found) |-> [url |-> found[i], col |-> column.col]]

\* C20: the rows collect_gs_urls returns are the strings starting with gs://
\* reachable in the cells through the elements of lists and the values of
\* maps, each occurrence once and tagged with its column: the same rows, as
\* many times, as the recursive definition gives.
C20_FlatteningIsRecursive ==
  /\ \A i \in 1..Len(url_rows) :
       url_rows[i].url.t = "str" /\ url_rows[i].url.v[1] = "gs://"
  /\ cpc = "returned" =>
       LET expected == ColumnRows(df[1]) \o ColumnRows(df[2])
       IN /\ Len(url_rows) = Len(expected)
          /\ \A x \in Range(url_rows) \cup Range(expected) :
               Count(url_rows, x) = Count(expected, x)

C20_Witness ==
  /\ cpc = "returned"
  /\ df[1].cells = <<Dict(<<List(<<UrlA, UrlB>>), List(<<Dict(<<UrlA>>)>>)>>)>>
  /\ Len(url_rows) = 4
  /\ url_rows[1].url = UrlA /\ url_rows[2].url = UrlB /\ url_rows[3].url = UrlA
  /\ url_rows[4].col = "c2"

\* every line of a page of a call is in the file
PagePersisted(c, p) ==
  \A k \in 1..PageLen(p) : BlobLine(c, p, k) \in Range(inventory_file)

\* no thread of the pool of write_inventory runs, no page task waits in the
\* queue and nobody holds file_lock
InvPoolDrained ==
  /\ \A w \in 1..n_workers : inv_threads[w].st \in {"none", "exited"}
  /\ \A i \in 1..Len(inv_queue) : inv_queue[i] = 0
  /\ file_lock = 0

\* write_inventory, or the making of the generator, has ended
InventoryEnded == ipc \in {"returned", "raised"}

\* C12: in run_all the plan phase starts, and reads the inventory, only when
\* every page task of write_inventory has ended: no thread runs, no task is
\* queued, the lock is free, and the file stays what the plan phase read; the
\* phases start in the order inventory, plan, clean, each after the return of
\* the one before.
C12_SequentialPhases ==
  /\ phases \in {<< >>, <<"inventory">>, <<"inventory", "plan">>,
                 <<"inventory", "plan", "clean">>}
  /\ Len(phases) >= 2 =>
       /\ ipc = "returned"
       /\ InvPoolDrained
       /\ plan_read = inventory_file

C12_Witness ==
  /\ phases = <<"inventory", "plan", "clean">>
  /\ n_pages = MaxPages
  /\ task_errors = {}
  /\ Len(plan_read) > page_size
  /\ \A p \in 1..n_pages : PagePersisted(1, p)

\* a listing error ends the inventory with the error, and run_all with it
ListingErrorAborts ==
  list_error => ipc # "returned" /\ Len(phases) <= 1

\* C13 (as stated): when the inventory of run_all ends without every listed
\* page persisted, by an error of the listing or of a page task, it ends
\* with an error and neither plan nor clean is executed.
C13_NoPartialInventory ==
  (/\ cmd = "run_all"
   /\ InventoryEnded
   /\ list_error \/ \E p \in 1..page_i : ~PagePersisted(1, p))
  => ipc = "raised" /\ phases = <<"inventory">>

\* the sibling tasks are not cancelled: when write_inventory ends the pool is
\* drained and every page submitted was written whole or raised itself
SiblingsRunToCompletion ==
  (InventoryEnded /\ call >= 1) =>
    /\ InvPoolDrained
    /\ \A p \in 1..page_i : PagePersisted(call, p) \/ <<call, p>> \in task_errors

\* C15 (as stated): an error of one page task does not cancel the tasks
\* already submitted, the pool drains, and then write_inventory reports the
\* error: it ends by raising.
C15_PoolDrainsThenReports ==
  /\ SiblingsRunToCompletion
  /\ (InventoryEnded /\ task_errors # {}) => ipc = "raised"

\* the lines of one page of one call are next to each other in the file
PageLinesContiguous ==
  \A i \in 1..Len(inventory_file) : \A j \in i..Len(inventory_file) :
    (/\ inventory_file[i].call = inventory_file[j].call
     /\ inventory_file[i].page = inventory_file[j].page)
    => \A m \in i..j :
         /\ inventory_file[m].call = inventory_file[i].call
         /\ inventory_file[m].page = inventory_file[i].page

\* no line of a call is in the file twice
NoDuplicateLines ==
  \A i \in 1..Len(inventory_file) : \A j \in 1..Len(inventory_file) :
    inventory_file[i] = inventory_file[j] => i = j

\* C16 (as stated): the lines of a page are contiguous in the file, and when
\* write_inventory of run_all completes the file holds one record for every
\* object of every listed page, none lost and none twice.
C16_InventoryIntegrity ==
  /\ PageLinesContiguous
  /\ (cmd = "run_all" /\ ipc = "returned") =>
       /\ NoDuplicateLines
       /\ \A p \in 1..page_i : PagePersisted(1, p)

\* C17 (as stated): when write_inventory completes, the file holds only the
\* records listed by that call, nothing of an earlier run or an earlier call.
C17_SnapshotPerCall ==
  ipc = "returned" =>
    \A i \in 1..Len(inventory_file) : inventory_file[i].call = call

\* C17: the file is truncated when the generator is made, not by
\* write_inventory: once the generator is made the file holds no line of an
\* earlier run, only lines of the calls of write_inventory on this generator,
\* so after the first call only lines of that call; from then on the file
\* only grows, a second call appending to the lines of the first.
C17_TruncatedAtConstruction ==
  /\ [](call >= 1 =>
         /\ OldLine \notin Range(inventory_file)
         /\ \A i \in 1..Len(inventory_file) :
              inventory_file[i].call \in 1..call)
  /\ [][call >= 1 =>
         /\ Len(inventory_file') >= Len(inventory_file)
         /\ SubSeq(inventory_file', 1, Len(inventory_file)) = inventory_file]_vars

C17_Witness ==
  /\ cmd = "InventoryGenerator"
  /\ old_file # << >>
  /\ ipc = "returned"
  /\ call = 2
  /\ \E i \in 1..Len(inventory_file) : inventory_file[i].call = 1
  /\ \E i \in 1..Len(inventory_file) : inventory_file[i].call = 2

\* the url of the row is referenced by a workspace of other_workspaces and
\* not by the primary workspace
SiblingOnly(n) ==
  /\ Len(fresh_urls) >= 2
  /\ stored[n].url \notin fresh_urls[1].urls
  /\ \E i \in 2..Len(fresh_urls) : stored[n].url \in fresh_urls[i].urls

\* C21: the reference set of the executor is the union over the primary
\* workspace and every workspace of other_workspaces: after
\* apply_delete_logic a row has in_data_table exactly when some checked
\* workspace references its url, and an object referenced by a sibling
\* workspace only is not selected, not passed to delete_blob and not removed.
C21_SiblingReferencesCount ==
  /\ Applied =>
       /\ Len(fresh_urls) = 1 + Len(other_workspaces)
       /\ \A i \in 1..Len(fresh_urls) :
            fresh_urls[i].workspace = (<<Primary>> \o other_workspaces)[i]
       /\ \A n \in RowNames :
            blobs[n].in_data_table <=>
              \E i \in 1..Len(fresh_urls) : blobs[n].url \in fresh_urls[i].urls
  /\ \A n \in RowNames :
       SiblingOnly(n) =>
         /\ delete_calls[n] = 0
         /\ n \notin deleted
         /\ n \notin Range(blobs_to_delete)
         /\ Applied => blobs[n].in_data_table /\ ~blobs[n].to_delete

C21_Witness ==
  /\ pc = "done"
  /\ other_workspaces = <<Sibling>>
  /\ SiblingOnly(DataBam)
  /\ ~stored[DataBam].in_data_table /\ stored[DataBam].to_delete
  /\ to_delete_sql = SqlStored
  /\ deleted = {AScript}

\* some phase of the subcommand misses an option
MissingOption ==
  \E k \in 1..Len(PhasesOf(command)) :
    ~(Required(PhasesOf(command)[k]) \subseteq given)

\* a subcommand of one phase fails on a missing option before it does
\* anything
SinglePhaseFailsFirst ==
  (command # "run_all" /\ MissingOption) => effects = {}

\* C22 (as stated): a subcommand, run_all too, that misses a required option
\* of any of its phases makes no remote call and truncates or writes no
\* file: it fails with the parameter error first.
C22_ConfigErrorBeforeEffects ==
  /\ MissingOption => effects = {}
  /\ cli_pc \in {"BadParameter", "KeyError"} => effects = {}

\* the places a work item is at: in the queue, on a thread, or run
Places(i) ==
  Cardinality({k \in 1..Len(pool_queue) : pool_queue[k] = i})
  + Cardinality({w \in 1..max_workers : pool_threads[w].item = i})
  + (IF i \in finished THEN 1 ELSE 0)

\* C23: the queue of a BoundedThreadPoolExecutor built with queue_size never
\* holds more than queue_size items no worker has taken; a submit is
\* possible exactly while it holds fewer, and while it is full some worker
\* of the pool is there to take an item; every item submitted is in the
\* queue, on a thread or run, once, and all are run when the pool is joined.
C23_Backpressure ==
  /\ Len(pool_queue) <= queue_size
  /\ (ppc = "submit" /\ submitted < n_items) =>
       (ENABLED PoolSubmit <=> Len(pool_queue) < queue_size)
  /\ (ppc = "submit" /\ Len(pool_queue) = queue_size) =>
       \E w \in 1..max_workers : pool_threads[w].st \in {"waiting", "running"}
  /\ \A i \in 1..MaxItems : Places(i) = (IF i <= submitted THEN 1 ELSE 0)
  /\ ppc = "done" => finished = 1..n_items

C23_Witness ==
  /\ ppc = "submit"
  /\ submitted < n_items
  /\ pool_queue = <<2, 3>>
  /\ queue_size = Len(pool_queue)
  /\ ~ENABLED PoolSubmit
  /\ \E w \in 1..max_workers : pool_threads[w].item = 1

\* the counter is never ahead of the file, and the thread that updates it
\* does not hold file_lock
CounterNeverAhead ==
  /\ n_blobs_written <= Len(inventory_file)
  /\ \A w \in DOMAIN inv_threads :
       inv_threads[w].st = "count" => file_lock # w

\* the counter never decreases, and only a thread past the write changes it
CounterNeverDecreases ==
  [][/\ n_blobs_written' >= n_blobs_written
     /\ n_blobs_written' # n_blobs_written =>
          \E w \in DOMAIN inv_threads : inv_threads[w].st = "count"]_vars

\* C24 (as stated): n_blobs_written is updated outside file_lock, is at
\* every moment no larger than the number of lines appended to the file, and
\* when write_inventory completes equals the number of lines written.
C24_ProgressCounter ==
  /\ CounterNeverAhead
  /\ ipc = "returned" => n_blobs_written = Len(inventory_file)

\* apply_delete_logic keeps the rows and every column but in_data_table and
\* to_delete
FrameKept ==
  /\ DOMAIN blobs = DOMAIN stored
  /\ \A n \in DOMAIN blobs :
       [blobs[n] EXCEPT !.in_data_table = stored[n].in_data_table,
                        !.to_delete = stored[n].to_delete] = stored[n]

\* in_data_table is recomputed from the reference set of this run
InDataTableRecomputed ==
  \A n \in DOMAIN blobs : blobs[n].in_data_table <=> blobs[n].url \in FreshUrls

\* C25 (as stated): apply_delete_logic keeps the rows and the columns other
\* than the two flags, recomputes in_data_table of every row, and changes
\* to_delete only from true to false.
C25_ToDeleteOnlyCleared ==
  Applied =>
    /\ FrameKept
    /\ InDataTableRecomputed
    /\ \A n \in DOMAIN blobs : blobs[n].to_delete => stored[n].to_delete

\* C25: apply_delete_logic keeps the rows and the columns other than the two
\* flags, recomputes in_data_table of every row whatever was stored, and
\* recomputes to_delete as to_delete_sql of the row and not in_data_table:
\* it changes only from true to false when to_delete_sql is the to_delete
\* column, and else can change from false to true. Before apply_delete_logic
\* the table is as stored.
C25_OnlyFlagsRecomputed ==
  /\ FrameKept
  /\ ~Applied => blobs = stored
  /\ Applied =>
       /\ InDataTableRecomputed
       /\ \A n \in DOMAIN blobs :
            /\ blobs[n].to_delete <=>
                 (EvalSql(to_delete_sql, stored[n]) /\ ~blobs[n].in_data_table)
            /\ to_delete_sql = SqlStored =>
                 (blobs[n].to_delete => stored[n].to_delete)

C25_Witness ==
  /\ pc = "done"
  /\ to_delete_sql = SqlDefault
  /\ stored[DataBam].in_data_table /\ ~blobs[DataBam].in_data_table
  /\ ~stored[DataBam].to_delete /\ blobs[DataBam].to_delete
  /\ ~stored[AScript].in_data_table /\ blobs[AScript].in_data_table
  /\ stored[AScript].to_delete /\ ~blobs[AScript].to_delete

\* the inputs of run i of make_plan
RunParams(i) ==
  [urls |-> gs_urls, now |-> run_at[i], days |-> days_considered_old,
   large |-> size_considered_large]

\* the rules hold of the object taken alone
DeletableAlone(r, i) == ToDelete(RowFlags(r, RunParams(i)))

\* the path of a delete operation: the first depth + 1 parts of its blobs
OpPrefix(op) ==
  LET n == CHOOSE x \in op.blobs : TRUE IN SubSeq(n, 1, op.depth + 1)

\* the objects of the inventory at or beneath a path
Beneath(prefix) ==
  {r \in inv : /\ Len(r.name) >= Len(prefix)
               /\ SubSeq(r.name, 1, Len(prefix)) = prefix}

\* a delete operation is emitted for a path only if every object of the
\* inventory beneath it is deletable: it covers them all, none is referenced
\* and the rules hold of each
FolderOnlyIfAllDeletable ==
  \A i \in Runs : \A k \in 1..Len(plans[i]) :
    LET op == plans[i][k]
    IN /\ \A n \in op.blobs : SubSeq(n, 1, op.depth + 1) = OpPrefix(op)
       /\ op.blobs = {r.name : r \in Beneath(OpPrefix(op))}
       /\ op.n_objs = Cardinality(op.blobs)
       /\ \A r \in Beneath(OpPrefix(op)) :
            ~Referenced(r) /\ DeletableAlone(r, i)

\* the decision falls through to the files: an object deletable on its own
\* is covered by some operation
FallsThroughToFiles ==
  \A i \in Runs : \A r \in inv :
    DeletableAlone(r, i) => r.name \in PlanBlobs(plans[i])

FallsThroughWithoutPrefixNames == NoPrefixNames => FallsThroughToFiles

\* C26 (as stated): a delete operation is emitted for a path only if every
\* object beneath it is deletable; else the decision falls through to the
\* deeper paths and to the files, so that an object deletable on its own is
\* covered by a deeper operation.
C26_FolderRollUp == FolderOnlyIfAllDeletable /\ FallsThroughToFiles

\* only the age rule can select the object: it is not referenced, not kept
\* by its name, not empty, not large and no pipeline log, and its name is
\* not a path prefix of another name
OnlyAgeApplies(r) ==
  /\ ~Referenced(r)
  /\ ~ForceKeep(r.name)
  /\ r.size # 0
  /\ ~Large(r)
  /\ ~IsPipelineLogs(r.name)
  /\ \A r2 \in inv : ~IsPrefixName(r.name, r2.name)

\* the calendar day of the last modification is before the calendar day of
\* the cutoff of run i
DateBeforeCutoff(r, i) ==
  (r.updated \div TicksPerDay)
    < ((run_at[i] - days_considered_old * TicksPerDay) \div TicksPerDay)

\* the last modification is before the cutoff of run i, as timestamps
TimestampBeforeCutoff(r, i) ==
  r.updated < run_at[i] - days_considered_old * TicksPerDay

\* C27 (as stated): one cutoff per run, and an object is old exactly when
\* its last-modified timestamp is earlier than the cutoff now -
\* days_considered_old.
C27_TimestampAge ==
  \A i \in Runs : \A r \in inv :
    /\ RowFlags(r, RunParams(i)).deletable_age
         <=> (~Referenced(r) /\ TimestampBeforeCutoff(r, i))
    /\ OnlyAgeApplies(r) =>
         (r.name \in PlanBlobs(plans[i]) <=> TimestampBeforeCutoff(r, i))

\* C27: one cutoff per run, the same for every object, and an object is old
\* exactly when the calendar date of its last modification is earlier than
\* the calendar date of now - days_considered_old; an object only the age
\* rule can select is covered by the plan exactly then.
C27_DateAge ==
  \A i \in Runs : \A r \in inv :
    /\ RowFlags(r, RunParams(i)).deletable_age
         <=> (~Referenced(r) /\ DateBeforeCutoff(r, i))
    /\ OnlyAgeApplies(r) =>
         (r.name \in PlanBlobs(plans[i]) <=> DateBeforeCutoff(r, i))

C27_Witness ==
  /\ Len(plans) = 2
  /\ \E r \in inv :
       /\ OnlyAgeApplies(r)
       /\ TimestampBeforeCutoff(r, 2) /\ ~DateBeforeCutoff(r, 2)
       /\ r.name \notin PlanBlobs(plans[2])
  /\ \E r \in inv :
       /\ RowFlags(r, RunParams(2)).deletable_age
       /\ r.name \in PlanBlobs(plans[2])

\* the largest attempt number and the largest start value the function is
\* checked for
MaxAttempt == 4
MaxStart == 2

RECURSIVE wait(_, _, _)
\* the sequence by its recurrence, on whole numbers
wait(n, f0, f1) ==
  IF n = 0 THEN f0
  ELSE IF n = 1 THEN f1
  ELSE wait(n - 1, f0, f1) + wait(n - 2, f0, f1)

\* the start values: the halves from 0 to MaxStart
Halves == 0..(2 * MaxStart)

\* the closed form is the recurrence: for starts h0/2 and h1/2 the n-th
\* number is wait(n, h0, h1)/2
ClosedFormIsRecurrence ==
  \A n \in 0..MaxAttempt : \A h0 \in Halves : \A h1 \in Halves :
    generalized_fibonacci(n, Q5(h0, 0, 2), Q5(h1, 0, 2)) = Q5(wait(n, h0, h1), 0, 2)

\* from the first retry on the sequence does not decrease
WaitsNeverDecrease ==
  \A n \in 1..(MaxAttempt - 1) : \A h0 \in Halves : \A h1 \in Halves :
    Q5Le(generalized_fibonacci(n, Q5(h0, 0, 2), Q5(h1, 0, 2)),
         generalized_fibonacci(n + 1, Q5(h0, 0, 2), Q5(h1, 0, 2)))

\* C28: the wait before retry k is wait(k) of the generalized Fibonacci
\* sequence, a function of k alone (wait(0) = f0, wait(1) = f1, wait(n) =
\* wait(n-1) + wait(n-2); 1, 2, 3, 5 s for retries 1 to 4 with f0 = f1 = 1);
\* the waits of one call of maybe_retry never decrease and the k-th is the
\* same whatever the calls before it did.
C28_FibonacciBackoff ==
  /\ ClosedFormIsRecurrence
  /\ WaitsNeverDecrease
  /\ <<round1(waiter(1)), round1(waiter(2)), round1(waiter(3)), round1(waiter(4))>>
       = <<10, 20, 30, 50>>
  /\ \A k \in 1..Len(waits) : waits[k] = 10 * wait(k, 1, 1)
  /\ \A k \in 1..(Len(waits) - 1) : waits[k] <= waits[k + 1]

C28_Witness ==
  /\ rpc = "raised"
  /\ Len(waits) = DefaultMaxRetries
  /\ waits[1] = 10 /\ waits[Len(waits)] = 30
  /\ calls[1].type # calls[2].type

\* a selection of n names, in order
Selection(n) == [k \in 1..n |-> k]

RECURSIVE BatchesUpTo(_, _)
\* the batches 0 to i of a selection, one after the other
BatchesUpTo(sel, i) ==
  IF i < 0 THEN << >> ELSE BatchesUpTo(sel, i - 1) \o BatchOf(sel, i)

\* the batches do_clean submits of a selection, in the order of the loop
SubmittedBatches(sel) ==
  [i \in 1..n_batches(Len(sel)) |-> BatchOf(sel, i - 1)]

\* every selected name is in exactly one submitted batch and the batches keep
\* the order of the selection: one after the other they are the selection
BatchesPartitionInOrder ==
  \A n \in 1..MaxSelection :
    BatchesUpTo(Selection(n), n_batches(n) - 1) = Selection(n)

\* C29 (as stated): for every n >= 1 selected names the batches do_clean
\* submits hold every name exactly once, in the order of the selection, and
\* none of them is empty.
C29_BatchesPartition ==
  /\ BatchesPartitionInOrder
  /\ \A n \in 1..MaxSelection :
       \A i \in 1..n_batches(n) : SubmittedBatches(Selection(n))[i] # << >>
  /\ \A k \in 1..Len(work_queue) :
       work_queue[k].fn = "delete_batch" => work_queue[k].batch # << >>

\* no object is covered by two delete operations of a plan
OpsDisjoint ==
  \A i \in Runs : \A j \in 1..Len(plans[i]) : \A k \in 1..Len(plans[i]) :
    j # k => plans[i][j].blobs \cap plans[i][k].blobs = {}

RECURSIVE SumNObjs(_, _)
\* the sum of n_objs over the first k operations of a plan
SumNObjs(plan, k) ==
  IF k = 0 THEN 0 ELSE SumNObjs(plan, k - 1) + plan[k].n_objs

\* the sum of n_objs over the operations is the number of objects covered
NObjsIsCount ==
  \A i \in Runs :
    SumNObjs(plans[i], Len(plans[i])) = Cardinality(PlanBlobs(plans[i]))

\* the objects covered are objects of the inventory
OpsCoverInventory ==
  \A i \in Runs : PlanBlobs(plans[i]) \subseteq {r.name : r \in inv}

\* C30 (as stated): the delete operations of a plan cover every object at
\* most once, the sum of their n_objs is the number of objects covered, and
\* every object the rules make deletable on its own is covered, one whose
\* name is a proper path prefix of another name included.
C30_OpsDisjointAndComplete ==
  /\ OpsDisjoint
  /\ NObjsIsCount
  /\ OpsCoverInventory
  /\ \A i \in Runs : \A r \in inv :
       (~Referenced(r) /\ DeletableAlone(r, i)) => r.name \in PlanBlobs(plans[i])

\* C31: when every task that runs ends, every submit returns: the submitter
\* at its k-th submit gets past it; and the exit of the block returns, with
\* every task run and every thread of the pool ended: the submitter and the
\* threads do not wait for each other on the full queue for ever.
C31_PhaseTerminates ==
  /\ \A k \in 0..MaxItems :
       (ppc = "submit" /\ submitted = k /\ k < n_items) ~> (submitted > k)
  /\ (ppc = "submit" /\ submitted = n_items) ~> (ppc = "join")
  /\ <>[](/\ ppc = "done"
          /\ finished = 1..n_items
          /\ \A w \in 1..max_workers : pool_threads[w].st \in {"none", "exited"})

\* shutdown waits on the full queue for a thread to take an item
C31_Witness ==
  /\ ppc = "submit"
  /\ n_items = MaxItems
  /\ submitted = n_items
  /\ Len(pool_queue) = queue_size
  /\ ~ENABLED PoolShutdown
  /\ \A w \in 1..max_workers : pool_threads[w].st = "running"

\* no row of the updated plan is selected for deletion
NothingSelected ==
  /\ Applied
  /\ pc # "AssertionError"
  /\ \A n \in RowNames : ~blobs[n].to_delete

\* C32: when no row of the plan is selected, do_clean has returned: it is
\* not at the making of the client and the bucket, nor at a submit or the
\* exit of the pool; no batch is queued, no thread was started, and no
\* delete was asked of the store for any name.
C32_NothingSelectedNoStoreCall ==
  NothingSelected =>
    /\ pc = "done"
    /\ blobs_to_delete = << >>
    /\ work_queue = << >>
    /\ \A w \in 1..max_workers : threads[w].st = "none"
    /\ \A n \in RowNames : delete_calls[n] = 0
    /\ deleted = {} /\ errors = {}

\* every row the stored plan selected is referenced by now
C32_Witness ==
  /\ NothingSelected
  /\ pc = "done"
  /\ \E n \in RowNames :
       /\ stored[n].to_delete
       /\ EvalSql(to_delete_sql, stored[n])
       /\ blobs[n].in_data_table

\* the call raised an exception that call_firecloud_api does not have
\* retried: neither a ConnectionError nor a ConnectTimeout
NotRetryable(o) ==
  o.kind = "exc" /\ o.type \notin {"ConnectionError", "ConnectTimeout"}

\* C33: an exception that is not retryable ends maybe_retry where it occurs:
\* its call is the last one, no wait follows it and it is what is raised,
\* also after retried failures; with max_retries = 0 func is called once, no
\* wait is made and what it raises is raised.
C33_OnlyRetryableRetried ==
  /\ \A k \in 1..Len(calls) :
       NotRetryable(calls[k]) =>
         /\ k = Len(calls)
         /\ Len(waits) = k - 1
         /\ rpc = "raised"
         /\ res = calls[k]
  /\ max_retries = 0 =>
       /\ Len(calls) <= 1
       /\ waits = << >>
       /\ \A k \in 1..Len(calls) :
            calls[k].kind = "exc" => rpc = "raised" /\ res = calls[k]

C33_Witness ==
  /\ max_retries = DefaultMaxRetries
  /\ Len(calls) = 3
  /\ calls[1].type = "ConnectionError" /\ calls[2].type = "ConnectTimeout"
  /\ NotRetryable(calls[3])
  /\ Len(waits) = 2
  /\ rpc = "raised"

\* the end of a job id: the date and the random part, each after a hyphen
JobIdTail == <<"-">> \o today \o <<"-">> \o uuid_part

\* the part of a job id between arret- and its end
WorkspacePart ==
  SubSeq(job_id, Len(ArretPrefix) + 1, Len(job_id) - Len(JobIdTail))

\* C34: the id make_batch_job_id returns has at most 63 characters, starts
\* with arret-, ends with the date and the random part in full, holds only
\* lowercase letters, digits and hyphens, and what is between is the start
\* of the workspace name, lowered and with hyphens for the other characters:
\* the whole of it when the id has fewer than 63 characters.
C34_JobIdWithinLimit ==
  job_id # << >> =>
    /\ Len(job_id) <= 63
    /\ Len(job_id) >= Len(ArretPrefix) + Len(JobIdTail)
    /\ SubSeq(job_id, 1, Len(ArretPrefix)) = ArretPrefix
    /\ SubSeq(job_id, Len(job_id) - Len(JobIdTail) + 1, Len(job_id)) = JobIdTail
    /\ \A j \in 1..Len(job_id) :
         job_id[j] \in LowercaseLetters \cup Digits \cup {"-"}
    /\ Len(WorkspacePart) <= Len(workspace_name)
    /\ \A j \in 1..Len(WorkspacePart) :
         WorkspacePart[j] = SubNonAlnum(Lower(workspace_name[j]))
    /\ Len(job_id) < 63 => Len(WorkspacePart) = Len(workspace_name)

\* a name too long by one character, with an upper-case letter at its start
\* and a character at its end that is cut off
C34_Witness ==
  /\ Len(job_id) = 63
  /\ Len(workspace_name) = Len(WorkspacePart) + 1
  /\ workspace_name[1] = "Z" /\ job_id[7] = "z"
  /\ workspace_name[Len(workspace_name)] = "_"
  /\ job_id[Len(job_id)] = "b"

====
